---- MODULE Spec2Model ----
(***************************************************************************)
(* Model of the scripts of alx-backend-python that stream rows from a      *)
(* store (python-generators-0x00) and that wrap a unit of work with        *)
(* connection scoping, transactions, retry and caching                     *)
(* (python-decorators-0x01), and that run queries concurrently on an       *)
(* event loop or scope a connection with a context manager                 *)
(* (python-context-async-perations-0x02).  Every script is a               *)
(* program of its own; prog says which one a behaviour runs.               *)
(***************************************************************************)
EXTENDS Integers, Sequences, FiniteSets, TLC

\* ------------------------------------------------------------------ bounds
MaxRows == 4        \* rows in table user_data at the start of a traversal
MaxBatch == 3       \* largest batch_size / page_size tried
MaxCalls == 3       \* calls of a decorated function in one run
MaxWrites == 2      \* writes one unit of work performs
MaxRetries == 3     \* largest `retries` argument tried
MaxStoreWrites == 1 \* rows another client inserts or deletes during a traversal
MaxCallers == 2     \* threads calling the cached fetch at the same time

VARIABLES
  prog,         \* the script being run
  rows,         \* table user_data, in the order the store returns it
  g_pc,         \* generator: "created", "suspended", "exhausted", "raised",
                \* "abandoned" (suspended, never resumed), "collected"
  connection,   \* local `connection`: "unset", "None", "open", "closed" by
                \* close(), "finalized" by the garbage collector
  opened,       \* number of connections the program has opened
  closeCalls,   \* number of connection.close() calls made
  result_set,   \* rows of the query executed on the cursor
  cursor_pos,   \* rows of result_set already fetched with fetchone()
  offset,       \* local `offset` of the batch / page stream
  batch_size,   \* argument batch_size / page_size
  yielded,      \* the elements the consumer received, in order
  fetchCalls,   \* store fetches issued (fetchone / window query)
  raised,       \* the exception that left the generator, or "none"
  d_pc,         \* decorated call: "idle", "func", ..., "finally"; "none" in a stream script
  calls,        \* calls of the decorated function that have completed
  outcome,      \* <<"return", value>> or <<"raise", exception>> of the call
  callOpened,   \* connections opened by the current (or last) call
  committed,    \* table users as committed: what every other connection sees
  pending,      \* table users as seen through `conn`, uncommitted writes included
  before,       \* table users as committed when the call began
  unit_writes,  \* the <<id, email>> updates the unit of work executed
  unit_outcome, \* how the unit of work itself ended
  exc,          \* `e` caught by transactional's except clause
  commits,      \* conn.commit() calls of the current call
  rollbacks,    \* conn.rollback() calls of the current call
  retries,      \* argument `retries` of retry_on_failure
  attempt,      \* loop variable `attempt`
  history,      \* how each invocation of the retried function ended
  sleeps,       \* time.sleep(delay) calls of the current call
  last_exception, \* local `last_exception`
  query,        \* argument `query` of the current call
  query_cache,  \* module-level dict query_cache
  cached_by,    \* per key of query_cache: the query of the call that stored it
  invoked,      \* per query: invocations of the function under cache_query
  succeeded,    \* per query: invocations that returned a result
  was_cached,   \* whether `query` was a key of query_cache when the call began
  callInvoked,  \* invocations of the function under cache_query by this call
  total_age,    \* calculate_average_age: local `total_age`
  count,        \* calculate_average_age: local `count`
  average,      \* what calculate_average_age returned: <<>> not yet, <<0>>
                \* the integer 0, <<t, c>> the quotient t / c
  fc_pc,        \* fetch_concurrently: "idle", "gathering", "returned"
  ready,        \* the event loop's queue of tasks ready to run, oldest first
  u_pc,         \* per unit: "new", "connecting", "querying", "closing", "done"
  u_io,         \* per unit: the awaited operation: "none", "pending", "ok", "fail"
  u_db,         \* per unit: the handle bound to `db`, 0 when there is none
  u_err,        \* per unit: an exception is on its way out of the async with
  u_users,      \* per unit: local `users` / `older_users`
  u_out,        \* per unit: how the coroutine ended
  u_failed,     \* per unit: one of its store operations failed
  handles,      \* every connection opened: who opened, used and closed it
  completion,   \* the units in the order they completed
  fc_result,    \* what fetch_concurrently returned
  storeWrites,  \* rows of user_data inserted or deleted by another client
                \* since the traversal began
  t_pc,         \* per calling thread, in cache_query's wrapper: "idle",
                \* "miss", "computed", "done"
  t_computed,   \* per thread: local `result`, "none" before func returned
  t_ret,        \* per thread: how its call ended
  writers,      \* the threads that assigned query_cache[query], in order
  w_pc,         \* a `with` statement: "idle", "body", "exit"; "none" elsewhere
  cursor,       \* self.cursor: "None", "open", "closed"
  cursorCloses, \* cursor.close() calls made
  w_exc,        \* the exception that left the last `with` statement, or "none"
  body_out,     \* what the body of the last `with` statement raised, or "none"
  stmt,         \* self.query: "None", "SELECT", "UPDATE"
  results,      \* self.results: <<"None">>, or <<"list", the rows fetched>>
  conn_rows,    \* table users as seen through self.connection
  seedings,     \* times the sample rows were inserted and committed
  csv,          \* the file read by insert_data: "missing", or its records
  after_first   \* the table as the first call of insert_data left it

genVars == <<g_pc, result_set, cursor_pos, offset, batch_size, yielded,
             fetchCalls, raised>>
connVars == <<connection, opened, closeCalls>>
txnVars == <<committed, pending, before, unit_writes, unit_outcome, exc,
             commits, rollbacks>>
retryVars == <<retries, attempt, history, sleeps, last_exception>>
cacheVars == <<query, query_cache, cached_by, invoked, succeeded, was_cached,
               callInvoked>>
callVars == <<d_pc, calls, outcome, callOpened>>
decorVars == <<callVars, txnVars, retryVars, cacheVars>>

aggVars == <<total_age, count, average>>
asyncVars == <<fc_pc, ready, u_pc, u_io, u_db, u_err, u_users, u_out, u_failed,
               handles, completion, fc_result>>

ccVars == <<t_pc, t_computed, t_ret, writers>>
ctxVars == <<w_pc, cursor, cursorCloses, w_exc, body_out, stmt, results,
             conn_rows, seedings, csv, after_first>>
restVars == <<storeWrites, ccVars, ctxVars>>

vars == <<prog, rows, connVars, genVars, decorVars, aggVars, asyncVars,
          restVars>>

StreamProgs == {"stream_users", "stream_users_in_batches", "lazy_pagination"}
Callers == 1..MaxCallers
WindowProgs == {"stream_users_in_batches", "lazy_pagination"}
DecorProgs == {"get_user_by_id", "update_user_email", "fetch_users_with_retry",
               "fetch_users_with_cache"}

Users == {1, 2}                    \* ids of rows of table users
Emails == {"a", "b"}               \* new_email arguments
\* exceptions a unit of work raises: a failure of the store
\* (sqlite3.OperationalError) and a rejected argument (ValueError)
Exceptions == {"OperationalError", "ValueError"}
Results == {"r1", "r2"}            \* what a fetch returns, as the store stands
\* query arguments: the falsy text, and one statement in two spellings
Keys == {"", "SELECT * FROM users", "select * from users"}
NoOutcome == <<"none", "none">>
Ages == {30, 50, 60}               \* values of column age
SampleAges == <<25, 35, 45, 30, 42, 38>>   \* the ages of the worked example
NUnits == 2                        \* coroutines handed to asyncio.gather
Units == 1..NUnits                 \* 1 asyncfetchusers, 2 asyncfetcholder_users

\* ------------------------------------------------------------- the store
\* seed.connect_to_prodev(): a connection, or None when connecting failed
connect_to_prodev == {"open", "None"}

Min(a, b) == IF a < b THEN a ELSE b

\* SELECT * FROM user_data LIMIT lim OFFSET off, as the store of
\* seed_sqlite.py answers it: LIMIT 0 selects nothing, a negative LIMIT is
\* no limit, a negative OFFSET is OFFSET 0 (a store that rejects the
\* statement instead is the failing fetch of the loops below)
\* (Window_skipFirst: the variant that starts each window one row late)
\* (Window_noOffset: the variant that ignores OFFSET)
Window_noOffset(t, lim, off) == SubSeq(t, 1, Min(IF lim < 0 THEN Len(t) ELSE lim, Len(t)))
Window_skipFirst(t, lim, off) == SubSeq(t, off + 2, Min(off + lim, Len(t)))
Window(t, lim, off) ==
  LET skip == IF off < 0 THEN 0 ELSE off
      last == IF lim < 0 THEN Len(t) ELSE Min(skip + lim, Len(t))
  IN SubSeq(t, skip + 1, last)

\* offset += batch_size
\* (AdvanceOffset_overlap: the variant that re-reads the last row of a batch)
\* (AdvanceOffset_skip: the variant that jumps over a window)
\* (AdvanceOffset_stuck: the variant that asks for the same window again)
AdvanceOffset_skip(off, b) == off + b + b
AdvanceOffset_overlap(off, b) == IF b > 1 THEN off + b - 1 ELSE off + b
AdvanceOffset_stuck(off, b) == off
AdvanceOffset(off, b) == off + b

RECURSIVE Flatten(_)
Flatten(ss) == IF ss = <<>> THEN <<>> ELSE Head(ss) \o Flatten(Tail(ss))

Ceil(n, b) == (n + b - 1) \div b

\* ------------------------------------------------------------------ Init
DecorRest ==
  /\ calls = 0
  /\ outcome = NoOutcome
  /\ callOpened = 0
  /\ committed = [u \in Users |-> "old"]
  /\ pending = committed
  /\ before = committed
  /\ unit_writes = <<>>
  /\ unit_outcome = NoOutcome
  /\ exc = "none"
  /\ commits = 0
  /\ rollbacks = 0
  /\ attempt = 0
  /\ history = <<>>
  /\ sleeps = 0
  /\ last_exception = "None"
  /\ query = ""
  /\ query_cache = <<>>
  /\ cached_by = <<>>
  /\ invoked = [q \in Keys |-> 0]
  /\ succeeded = [q \in Keys |-> 0]
  /\ was_cached = FALSE
  /\ callInvoked = 0

CallersRest ==
  /\ t_pc = [t \in Callers |-> "idle"]
  /\ t_computed = [t \in Callers |-> "none"]
  /\ t_ret = [t \in Callers |-> NoOutcome]
  /\ writers = <<>>

MoreRest ==
  /\ storeWrites = 0
  /\ CallersRest

CtxRest ==
  /\ cursor = "None"
  /\ cursorCloses = 0
  /\ w_exc = "none"
  /\ body_out = "none"
  /\ results = <<"None">>
  /\ conn_rows = <<>>
  /\ seedings = 0
  /\ after_first = <<>>

AggRest ==
  /\ total_age = 0
  /\ count = 0
  /\ average = <<>>

AsyncRest ==
  /\ ready = <<>>
  /\ u_pc = [i \in Units |-> "none"]
  /\ u_io = [i \in Units |-> "none"]
  /\ u_db = [i \in Units |-> 0]
  /\ u_err = [i \in Units |-> FALSE]
  /\ u_users = [i \in Units |-> <<>>]
  /\ u_out = [i \in Units |-> NoOutcome]
  /\ u_failed = [i \in Units |-> FALSE]
  /\ handles = <<>>
  /\ completion = <<>>
  /\ fc_result = <<>>

StreamRest ==
  /\ connection = "unset"
  /\ opened = 0
  /\ closeCalls = 0
  /\ result_set = <<>>
  /\ cursor_pos = 0
  /\ offset = 0
  /\ batch_size = 1
  /\ yielded = <<>>
  /\ fetchCalls = 0
  /\ raised = "none"

InitStream ==
  /\ prog \in StreamProgs
  /\ AggRest
  /\ fc_pc = "none"
  /\ AsyncRest
  /\ MoreRest
  /\ w_pc = "none"
  /\ stmt = "None"
  /\ csv = <<"missing">>
  /\ CtxRest
  /\ d_pc = "none"
  /\ retries = 0
  /\ DecorRest
  /\ \E n \in 0..MaxRows : rows = [i \in 1..n |-> i]
  /\ g_pc = "created"
  /\ connection = "unset"
  /\ opened = 0
  /\ closeCalls = 0
  /\ result_set = <<>>
  /\ cursor_pos = 0
  /\ offset = 0
  /\ batch_size \in -1..MaxBatch    \* the argument is not validated
  /\ (prog = "stream_users" => batch_size = 1)
  /\ yielded = <<>>
  /\ fetchCalls = 0
  /\ raised = "none"

\* ---------------------------------------------------- 0-stream_users.py
\* one turn of `while True: row = cursor.fetchone() ...` up to the next
\* yield, the return after the loop, or an exception out of fetchone()
\* (su_loop_noClose: the variant that returns without closing)
su_loop_noClose(rs, pos, ok) ==
  /\ fetchCalls' = fetchCalls + 1
  /\ result_set' = rs
  /\ IF ~ok
       THEN /\ g_pc' = "raised"
            /\ raised' = "FetchError"
            /\ connection' = "open"
            /\ cursor_pos' = pos
            /\ UNCHANGED <<yielded, closeCalls>>
       ELSE IF pos < Len(rs)
         THEN /\ g_pc' = "suspended"
              /\ yielded' = Append(yielded, rs[pos + 1])
              /\ cursor_pos' = pos + 1
              /\ connection' = "open"
              /\ UNCHANGED <<raised, closeCalls>>
         ELSE /\ g_pc' = "exhausted"
              /\ connection' = "open"
              /\ closeCalls' = closeCalls
              /\ cursor_pos' = pos
              /\ UNCHANGED <<raised, yielded>>

\* (su_loop_fetchall: the variant that reads the whole result set from the
\* cursor at the first request and hands it out row by row)
su_loop_fetchall(rs, pos, ok) ==
  /\ fetchCalls' = fetchCalls + 1
  /\ result_set' = rs
  /\ IF ~ok
       THEN /\ g_pc' = "raised"
            /\ raised' = "FetchError"
            /\ connection' = "open"
            /\ cursor_pos' = pos
            /\ UNCHANGED <<yielded, closeCalls>>
       ELSE IF Len(yielded) < Len(rs)
         THEN /\ g_pc' = "suspended"
              /\ yielded' = Append(yielded, rs[Len(yielded) + 1])
              /\ cursor_pos' = Len(rs)
              /\ connection' = "open"
              /\ UNCHANGED <<raised, closeCalls>>
         ELSE /\ g_pc' = "exhausted"
              /\ connection' = "closed"
              /\ closeCalls' = closeCalls + 1
              /\ cursor_pos' = pos
              /\ UNCHANGED <<raised, yielded>>

su_loop(rs, pos, ok) ==
  /\ fetchCalls' = fetchCalls + 1
  /\ result_set' = rs
  /\ IF ~ok
       THEN /\ g_pc' = "raised"
            /\ raised' = "FetchError"
            /\ connection' = "open"
            /\ cursor_pos' = pos
            /\ UNCHANGED <<yielded, closeCalls>>
       ELSE IF pos < Len(rs)
         THEN /\ g_pc' = "suspended"
              /\ yielded' = Append(yielded, rs[pos + 1])
              /\ cursor_pos' = pos + 1
              /\ connection' = "open"
              /\ UNCHANGED <<raised, closeCalls>>
         ELSE /\ g_pc' = "exhausted"
              /\ connection' = "closed"
              /\ closeCalls' = closeCalls + 1
              /\ cursor_pos' = pos
              /\ UNCHANGED <<raised, yielded>>

\* first next(): connect, execute the query, run to the first yield
su_start ==
  /\ prog = "stream_users"
  /\ g_pc = "created"
  /\ \E c \in connect_to_prodev :
       IF c = "None"
         THEN /\ g_pc' = "exhausted"
              /\ connection' = "None"
              /\ UNCHANGED <<opened, closeCalls, result_set, cursor_pos,
                             yielded, fetchCalls, raised>>
         ELSE /\ opened' = opened + 1
              /\ \E execOk \in BOOLEAN :
                   IF ~execOk
                     THEN /\ g_pc' = "raised"
                          /\ raised' = "FetchError"
                          /\ connection' = "open"
                          /\ UNCHANGED <<closeCalls, result_set, cursor_pos,
                                         yielded, fetchCalls>>
                     ELSE \E ok \in BOOLEAN : su_loop(rows, 0, ok)
  /\ UNCHANGED <<prog, rows, offset, batch_size>>
  /\ UNCHANGED decorVars
  /\ UNCHANGED <<aggVars, asyncVars, restVars>>

\* a later next(): resume after the yield
su_resume ==
  /\ prog = "stream_users"
  /\ g_pc = "suspended"
  /\ \E ok \in BOOLEAN : su_loop(result_set, cursor_pos, ok)
  /\ UNCHANGED <<prog, rows, opened, offset, batch_size>>
  /\ UNCHANGED decorVars
  /\ UNCHANGED <<aggVars, asyncVars, restVars>>

\* ------------------------------------------------ 1-batch_processing.py
\* one turn of the `while True:` loop of stream_users_in_batches
\* (sb_loop_yieldsEmpty: the variant that yields the empty batch before it stops)
sb_loop_yieldsEmpty(off, ok) ==
  /\ fetchCalls' = fetchCalls + 1
  /\ offset' = off
  /\ IF ~ok
       THEN /\ g_pc' = "raised"
            /\ raised' = "FetchError"
            /\ connection' = "open"
            /\ UNCHANGED <<yielded, closeCalls>>
       ELSE LET batch == Window(rows, batch_size, off) IN
         IF batch = <<>> /\ yielded # <<>> /\ yielded[Len(yielded)] = <<>>
           THEN /\ g_pc' = "exhausted"
                /\ connection' = "closed"
                /\ closeCalls' = closeCalls + 1
                /\ UNCHANGED <<raised, yielded>>
           ELSE /\ g_pc' = "suspended"
                /\ yielded' = Append(yielded, batch)
                /\ connection' = "open"
                /\ UNCHANGED <<raised, closeCalls>>

sb_loop(off, ok) ==
  /\ fetchCalls' = fetchCalls + 1
  /\ offset' = off
  /\ IF ~ok
       THEN /\ g_pc' = "raised"
            /\ raised' = "FetchError"
            /\ connection' = "open"
            /\ UNCHANGED <<yielded, closeCalls>>
       ELSE LET batch == Window(rows, batch_size, off) IN
         IF batch = <<>>
           THEN /\ g_pc' = "exhausted"
                /\ connection' = "closed"
                /\ closeCalls' = closeCalls + 1
                /\ UNCHANGED <<raised, yielded>>
           ELSE /\ g_pc' = "suspended"
                /\ yielded' = Append(yielded, batch)
                /\ connection' = "open"
                /\ UNCHANGED <<raised, closeCalls>>

\* first next(): `if connection:` skips the whole body when connecting failed
\* (sb_start_raisesOnNone: the variant that raises instead)
sb_start_raisesOnNone ==
  /\ prog = "stream_users_in_batches"
  /\ g_pc = "created"
  /\ \E c \in connect_to_prodev :
       IF c = "None"
         THEN /\ g_pc' = "raised"
              /\ raised' = "ConnectionError"
              /\ connection' = "None"
              /\ UNCHANGED <<opened, closeCalls, offset, yielded,
                             fetchCalls>>
         ELSE /\ opened' = opened + 1
              /\ \E ok \in BOOLEAN : sb_loop(0, ok)
  /\ UNCHANGED <<prog, rows, result_set, cursor_pos, batch_size>>
  /\ UNCHANGED decorVars
  /\ UNCHANGED <<aggVars, asyncVars, restVars>>

sb_start ==
  /\ prog = "stream_users_in_batches"
  /\ g_pc = "created"
  /\ \E c \in connect_to_prodev :
       IF c = "None"
         THEN /\ g_pc' = "exhausted"
              /\ connection' = "None"
              /\ UNCHANGED <<opened, closeCalls, offset, yielded,
                             fetchCalls, raised>>
         ELSE /\ opened' = opened + 1
              /\ \E ok \in BOOLEAN : sb_loop(0, ok)
  /\ UNCHANGED <<prog, rows, result_set, cursor_pos, batch_size>>
  /\ UNCHANGED decorVars
  /\ UNCHANGED <<aggVars, asyncVars, restVars>>

\* resume after `yield batch`: offset += batch_size, then the next turn
sb_resume ==
  /\ prog = "stream_users_in_batches"
  /\ g_pc = "suspended"
  /\ Len(yielded) <= MaxRows + MaxStoreWrites   \* cuts the endless traversals
  /\ \E ok \in BOOLEAN : sb_loop(AdvanceOffset(offset, batch_size), ok)
  /\ UNCHANGED <<prog, rows, opened, result_set, cursor_pos, batch_size>>
  /\ UNCHANGED decorVars
  /\ UNCHANGED <<aggVars, asyncVars, restVars>>

\* -------------------------------------------------- 2-lazy_paginate.py
\* paginate_users(page_size, offset), called from one turn of the loop of
\* lazy_pagination at the given offset
\* (lp_loop_prefetch: the variant that fetches the page after the one it
\* yields before it suspends)
lp_loop_prefetch(off) ==
  /\ offset' = off
  /\ \E c \in connect_to_prodev :
       IF c = "None"
         THEN /\ g_pc' = "raised"
              /\ raised' = "AttributeError"
              /\ connection' = "None"
              /\ UNCHANGED <<opened, closeCalls, yielded, fetchCalls>>
         ELSE \E ok \in BOOLEAN :
                IF ~ok
                  THEN /\ g_pc' = "raised"
                       /\ raised' = "FetchError"
                       /\ connection' = "open"
                       /\ opened' = opened + 1
                       /\ fetchCalls' = fetchCalls + 1
                       /\ UNCHANGED <<closeCalls, yielded>>
                  ELSE LET page == Window(rows, batch_size, off) IN
                       /\ connection' = "closed"
                       /\ raised' = raised
                       /\ IF page = <<>>
                            THEN /\ g_pc' = "exhausted"
                                 /\ yielded' = yielded
                                 /\ opened' = opened + 1
                                 /\ fetchCalls' = fetchCalls + 1
                                 /\ closeCalls' = closeCalls + 1
                            ELSE /\ g_pc' = "suspended"
                                 /\ yielded' = Append(yielded, page)
                                 /\ opened' = opened + 2
                                 /\ fetchCalls' = fetchCalls + 2
                                 /\ closeCalls' = closeCalls + 2

lp_loop(off) ==
  /\ offset' = off
  /\ \E c \in connect_to_prodev :
       IF c = "None"
         THEN \* None.cursor(...) raises AttributeError, not TypeError
              /\ g_pc' = "raised"
              /\ raised' = "AttributeError"
              /\ connection' = "None"
              /\ UNCHANGED <<opened, closeCalls, yielded, fetchCalls>>
         ELSE /\ opened' = opened + 1
              /\ fetchCalls' = fetchCalls + 1
              /\ \E ok \in BOOLEAN :
                   IF ~ok
                     THEN /\ g_pc' = "raised"
                          /\ raised' = "FetchError"
                          /\ connection' = "open"
                          /\ UNCHANGED <<closeCalls, yielded>>
                     ELSE LET page == Window(rows, batch_size, off) IN
                          /\ connection' = "closed"
                          /\ closeCalls' = closeCalls + 1
                          /\ raised' = raised
                          /\ IF page = <<>>
                               THEN /\ g_pc' = "exhausted"
                                    /\ yielded' = yielded
                               ELSE /\ g_pc' = "suspended"
                                    /\ yielded' = Append(yielded, page)

lp_start ==
  /\ prog = "lazy_pagination"
  /\ g_pc = "created"
  /\ lp_loop(0)
  /\ UNCHANGED <<prog, rows, result_set, cursor_pos, batch_size>>
  /\ UNCHANGED decorVars
  /\ UNCHANGED <<aggVars, asyncVars, restVars>>

lp_resume ==
  /\ prog = "lazy_pagination"
  /\ g_pc = "suspended"
  /\ Len(yielded) <= MaxRows + MaxStoreWrites   \* cuts the endless traversals
  /\ lp_loop(AdvanceOffset(offset, batch_size))
  /\ UNCHANGED <<prog, rows, result_set, cursor_pos, batch_size>>
  /\ UNCHANGED decorVars
  /\ UNCHANGED <<aggVars, asyncVars, restVars>>

\* ------------------------------------------------- another store client
\* the id of the w-th row written during the traversal
NewRowId(w) == MaxRows + 1 + w

InsertAt(t, k, r) == SubSeq(t, 1, k) \o <<r>> \o SubSeq(t, k + 1, Len(t))
DeleteAt(t, k) == SubSeq(t, 1, k - 1) \o SubSeq(t, k + 1, Len(t))

\* between two window queries, while the generator is suspended, another
\* client inserts a row into user_data or deletes one.  The queries have no
\* ORDER BY: the rows come in the store's own order (that of the key
\* user_id, a random uuid, where the table is kept by key), so a new row
\* may land at any position
store_write ==
  /\ prog \in WindowProgs
  /\ g_pc = "suspended"
  /\ storeWrites < MaxStoreWrites
  /\ \/ \E k \in 0..Len(rows) : rows' = InsertAt(rows, k, NewRowId(storeWrites))
     \/ \E k \in 1..Len(rows) : rows' = DeleteAt(rows, k)
  /\ storeWrites' = storeWrites + 1
  /\ UNCHANGED <<prog, connVars, genVars, decorVars, aggVars, asyncVars, ccVars,
                 ctxVars>>

\* ------------------------------------------------------- the consumer
\* the consumer stops pulling (islice(gen, k)): the generator stays
\* suspended at its yield for as long as the object lives
abandon ==
  /\ prog \in StreamProgs
  /\ g_pc = "suspended"
  /\ g_pc' = "abandoned"
  /\ UNCHANGED <<prog, rows, connVars, result_set, cursor_pos, offset,
                 batch_size, yielded, fetchCalls, raised, decorVars>>
  /\ UNCHANGED <<aggVars, asyncVars, restVars>>

\* the abandoned generator object is reclaimed, whenever the interpreter does
\* that: GeneratorExit is raised at the yield, where no try/finally encloses
\* it, so close() is not called; the connection object dies with the frame
collect ==
  /\ prog \in StreamProgs
  /\ g_pc = "abandoned"
  /\ g_pc' = "collected"
  /\ connection' = IF connection = "open" THEN "finalized" ELSE connection
  /\ UNCHANGED <<prog, rows, opened, closeCalls, result_set, cursor_pos,
                 offset, batch_size, yielded, fetchCalls, raised, decorVars>>
  /\ UNCHANGED <<aggVars, asyncVars, restVars>>

\* ---------------------------------------------------- 4-stream_ages.py
InitAverage ==
  /\ prog = "calculate_average_age"
  /\ d_pc = "none"
  /\ retries = 0
  /\ DecorRest
  /\ AggRest
  /\ fc_pc = "none"
  /\ AsyncRest
  /\ MoreRest
  /\ w_pc = "none"
  /\ stmt = "None"
  /\ csv = <<"missing">>
  /\ CtxRest
  /\ \/ rows = SampleAges
     \/ \E n \in 0..MaxRows : rows \in [1..n -> Ages]
  /\ g_pc = "created"
  /\ StreamRest

\* total_age += age
\* (Accumulate_overwrite: the variant that keeps the last age only)
Accumulate_overwrite(total, age) == age
Accumulate(total, age) == total + age

\* if count == 0: return 0, else return total_age / count
Average(total, cnt) == IF cnt = 0 THEN <<0>> ELSE <<total, cnt>>

\* one turn of `for age in stream_user_ages():`: the generator runs its
\* fetchone() loop, which is that of stream_users, to the next yield or to
\* its end; a yielded age goes through the loop body, the end of the
\* generator ends the loop and the function returns
age_loop(rs, pos, ok) ==
  /\ su_loop(rs, pos, ok)
  /\ IF g_pc' = "suspended"
       THEN /\ total_age' = Accumulate(total_age, rs[pos + 1])
            /\ count' = count + 1
            /\ average' = average
       ELSE IF g_pc' = "exhausted"
         THEN /\ average' = Average(total_age, count)
              /\ UNCHANGED <<total_age, count>>
         ELSE UNCHANGED aggVars

\* total_age = 0; count = 0; the first turn of the for loop connects and
\* executes the query
age_start ==
  /\ prog = "calculate_average_age"
  /\ g_pc = "created"
  /\ \E c \in connect_to_prodev :
       IF c = "None"
         THEN /\ g_pc' = "exhausted"
              /\ connection' = "None"
              /\ average' = Average(total_age, count)
              /\ UNCHANGED <<opened, closeCalls, result_set, cursor_pos,
                             yielded, fetchCalls, raised, total_age, count>>
         ELSE /\ opened' = opened + 1
              /\ \E execOk \in BOOLEAN :
                   IF ~execOk
                     THEN /\ g_pc' = "raised"
                          /\ raised' = "FetchError"
                          /\ connection' = "open"
                          /\ UNCHANGED <<closeCalls, result_set, cursor_pos,
                                         yielded, fetchCalls, aggVars>>
                     ELSE \E ok \in BOOLEAN : age_loop(rows, 0, ok)
  /\ UNCHANGED <<prog, rows, offset, batch_size>>
  /\ UNCHANGED <<decorVars, asyncVars, restVars>>

age_next ==
  /\ prog = "calculate_average_age"
  /\ g_pc = "suspended"
  /\ \E ok \in BOOLEAN : age_loop(result_set, cursor_pos, ok)
  /\ UNCHANGED <<prog, rows, opened, offset, batch_size>>
  /\ UNCHANGED <<decorVars, asyncVars, restVars>>

\* ====================================================== decorated calls
InitDecor ==
  /\ prog \in DecorProgs
  /\ AggRest
  /\ fc_pc = "none"
  /\ AsyncRest
  /\ MoreRest
  /\ w_pc = "none"
  /\ stmt = "None"
  /\ csv = <<"missing">>
  /\ CtxRest
  /\ d_pc = "idle"
  /\ retries \in 0..MaxRetries
  /\ (prog # "fetch_users_with_retry" => retries = 0)
  /\ DecorRest
  /\ rows = <<>>
  /\ g_pc = "none"
  /\ connection = "unset"
  /\ opened = 0
  /\ closeCalls = 0
  /\ result_set = <<>>
  /\ cursor_pos = 0
  /\ offset = 0
  /\ batch_size = 1
  /\ yielded = <<>>
  /\ fetchCalls = 0
  /\ raised = "none"

RECURSIVE Apply(_, _)
\* table t after the updates ws, executed in order
Apply(t, ws) ==
  IF ws = <<>> THEN t
  ELSE Apply([t EXCEPT ![Head(ws)[1]] = Head(ws)[2]], Tail(ws))

\* ---------------------------------------- with_db_connection (all scripts)
\* wrapper(): conn = sqlite3.connect('users.db'), then enter the try block
wdc_call ==
  /\ prog \in DecorProgs
  /\ d_pc = "idle"
  /\ calls < MaxCalls
  /\ \E q \in Keys :
       query' = IF prog = "fetch_users_with_cache" THEN q ELSE query
  /\ was_cached' = (query' \in DOMAIN query_cache)
  /\ callInvoked' = 0
  /\ before' = committed
  /\ unit_writes' = <<>>
  /\ unit_outcome' = NoOutcome
  /\ exc' = "none"
  /\ commits' = 0
  /\ rollbacks' = 0
  /\ attempt' = 0
  /\ history' = <<>>
  /\ sleeps' = 0
  /\ last_exception' = "None"
  /\ \E connected \in BOOLEAN :
       IF connected
         THEN /\ connection' = "open"
              /\ opened' = opened + 1
              /\ callOpened' = 1
              /\ d_pc' = "func"
              /\ outcome' = NoOutcome
              /\ calls' = calls
         ELSE \* connect() raised before the try: nothing was opened
              /\ outcome' = <<"raise", "ConnectError">>
              /\ callOpened' = 0
              /\ calls' = calls + 1
              /\ UNCHANGED <<connection, opened, d_pc>>
  /\ UNCHANGED <<prog, rows, genVars, closeCalls, committed, pending,
                 retries, query_cache, cached_by, invoked, succeeded>>
  /\ UNCHANGED <<aggVars, asyncVars, restVars>>

\* finally: conn.close(), with a return value or an exception in flight;
\* closing discards what the connection had not committed
\* (wdc_finally_onReturnOnly: the variant without finally, closing after a
\* normal return only)
wdc_finally_onReturnOnly ==
  /\ d_pc = "finally"
  /\ IF outcome[1] = "return"
       THEN /\ connection' = "closed"
            /\ closeCalls' = closeCalls + 1
            /\ pending' = committed
       ELSE UNCHANGED <<connection, closeCalls, pending>>
  /\ d_pc' = "idle"
  /\ calls' = calls + 1
  /\ UNCHANGED <<prog, rows, genVars, opened, outcome, callOpened, committed,
                 before, unit_writes, unit_outcome, exc, commits, rollbacks,
                 retryVars, cacheVars>>
  /\ UNCHANGED <<aggVars, asyncVars, restVars>>

wdc_finally ==
  /\ d_pc = "finally"
  /\ connection' = "closed"
  /\ closeCalls' = closeCalls + 1
  /\ pending' = committed
  /\ d_pc' = "idle"
  /\ calls' = calls + 1
  /\ UNCHANGED <<prog, rows, genVars, opened, outcome, callOpened, committed,
                 before, unit_writes, unit_outcome, exc, commits, rollbacks,
                 retryVars, cacheVars>>
  /\ UNCHANGED <<aggVars, asyncVars, restVars>>

\* ----------------------------------------------- 1-with_db_connection.py
\* get_user_by_id(conn, user_id): one query, which returns a row or raises
get_user_by_id ==
  /\ prog = "get_user_by_id"
  /\ d_pc = "func"
  /\ \/ \E r \in Results : outcome' = <<"return", r>>
     \/ \E x \in Exceptions : outcome' = <<"raise", x>>
  /\ d_pc' = "finally"
  /\ UNCHANGED <<prog, rows, genVars, connVars, calls, callOpened, txnVars,
                 retryVars, cacheVars>>
  /\ UNCHANGED <<aggVars, asyncVars, restVars>>

\* --------------------------------------------------- 2-transactional.py
\* the unit of work executes one UPDATE: it takes effect through conn, or
\* execute() raises and the exception reaches transactional's except clause
txn_execute ==
  /\ prog = "update_user_email"
  /\ d_pc = "func"
  /\ Len(unit_writes) < MaxWrites
  /\ \E u \in Users, m \in Emails :
       \/ /\ pending' = [pending EXCEPT ![u] = m]
          /\ unit_writes' = Append(unit_writes, <<u, m>>)
          /\ UNCHANGED <<d_pc, unit_outcome, exc>>
       \/ \E x \in Exceptions :
            /\ unit_outcome' = <<"raise", x>>
            /\ exc' = x
            /\ d_pc' = "except"
            /\ UNCHANGED <<pending, unit_writes>>
  /\ UNCHANGED <<prog, rows, genVars, connVars, calls, outcome, callOpened,
                 committed, before, commits, rollbacks, retryVars, cacheVars>>
  /\ UNCHANGED <<aggVars, asyncVars, restVars>>

\* the unit of work returns: result = func(conn, *args, **kwargs)
txn_return ==
  /\ prog = "update_user_email"
  /\ d_pc = "func"
  /\ \E r \in Results \cup {"None"} : unit_outcome' = <<"return", r>>
  /\ d_pc' = "commit"
  /\ UNCHANGED <<prog, rows, genVars, connVars, calls, outcome, callOpened,
                 committed, pending, before, unit_writes, exc, commits,
                 rollbacks, retryVars, cacheVars>>
  /\ UNCHANGED <<aggVars, asyncVars, restVars>>

\* conn.commit(); return result -- or commit() raises into the except clause
\* (txn_commit_outsideTry: the variant whose commit is not covered by the
\* except clause, so that its failure goes out without a rollback)
txn_commit_outsideTry ==
  /\ prog = "update_user_email"
  /\ d_pc = "commit"
  /\ commits' = commits + 1
  /\ \/ /\ committed' = pending
        /\ outcome' = unit_outcome
        /\ d_pc' = "finally"
        /\ UNCHANGED exc
     \/ /\ exc' = "CommitError"
        /\ outcome' = <<"raise", "CommitError">>
        /\ d_pc' = "finally"
        /\ UNCHANGED committed
  /\ UNCHANGED <<prog, rows, genVars, connVars, calls, callOpened, pending,
                 before, unit_writes, unit_outcome, rollbacks, retryVars,
                 cacheVars>>
  /\ UNCHANGED <<aggVars, asyncVars, restVars>>

txn_commit ==
  /\ prog = "update_user_email"
  /\ d_pc = "commit"
  /\ commits' = commits + 1
  /\ \/ /\ committed' = pending
        /\ outcome' = unit_outcome
        /\ d_pc' = "finally"
        /\ UNCHANGED exc
     \/ /\ exc' = "CommitError"
        /\ d_pc' = "except"
        /\ UNCHANGED <<committed, outcome>>
  /\ UNCHANGED <<prog, rows, genVars, connVars, calls, callOpened, pending,
                 before, unit_writes, unit_outcome, rollbacks, retryVars,
                 cacheVars>>
  /\ UNCHANGED <<aggVars, asyncVars, restVars>>

\* except Exception as e: conn.rollback(); raise e
\* (txn_except_wraps: the variant that raises an exception of its own;
\* txn_except_commits: the variant that publishes the writes it should undo)
txn_except_wraps ==
  /\ prog = "update_user_email"
  /\ d_pc = "except"
  /\ rollbacks' = rollbacks + 1
  /\ pending' = committed
  /\ outcome' = <<"raise", "TransactionError">>
  /\ d_pc' = "finally"
  /\ UNCHANGED <<prog, rows, genVars, connVars, calls, callOpened, committed,
                 before, unit_writes, unit_outcome, exc, commits, retryVars,
                 cacheVars>>
  /\ UNCHANGED <<aggVars, asyncVars, restVars>>

txn_except_commits ==
  /\ prog = "update_user_email"
  /\ d_pc = "except"
  /\ rollbacks' = rollbacks + 1
  /\ committed' = pending
  /\ outcome' = <<"raise", exc>>
  /\ d_pc' = "finally"
  /\ UNCHANGED <<prog, rows, genVars, connVars, calls, callOpened, pending,
                 before, unit_writes, unit_outcome, exc, commits, retryVars,
                 cacheVars>>
  /\ UNCHANGED <<aggVars, asyncVars, restVars>>

txn_except ==
  /\ prog = "update_user_email"
  /\ d_pc = "except"
  /\ rollbacks' = rollbacks + 1
  /\ pending' = committed
  /\ outcome' = <<"raise", exc>>
  /\ d_pc' = "finally"
  /\ UNCHANGED <<prog, rows, genVars, connVars, calls, callOpened, committed,
                 before, unit_writes, unit_outcome, exc, commits, retryVars,
                 cacheVars>>
  /\ UNCHANGED <<aggVars, asyncVars, restVars>>

\* ------------------------------------------------ 3-retry_on_failure.py
\* range(retries + 1): the number of turns of the for loop
\* (LoopTurns_noInitial: the variant range(retries))
LoopTurns_noInitial(r) == r
LoopTurns(r) == r + 1

\* `if attempt < retries:` -- sleep before the next turn, not after the last
\* (SleepBeforeNext_always: the variant that sleeps after every failure)
SleepBeforeNext_always(a, r) == TRUE
SleepBeforeNext(a, r) == a < r

\* last_exception = e
\* (Remember_first: the variant that keeps the first exception caught)
Remember_first(last, e) == IF last = "None" THEN e ELSE last
Remember(last, e) == e

\* the end of one turn that failed: the next turn of the for loop, or, when
\* range(retries + 1) is used up, `raise last_exception`
retry_next_turn ==
  IF attempt + 1 < LoopTurns(retries)
    THEN /\ attempt' = attempt + 1
         /\ d_pc' = "func"
         /\ UNCHANGED outcome
    ELSE /\ outcome' = <<"raise", last_exception'>>
         /\ d_pc' = "finally"
         /\ UNCHANGED attempt

\* one turn of `for attempt in range(retries + 1)`: call func; on an
\* exception remember it and either go to sleep or go on without sleeping
\* (retry_attempt_keepsGoing: the variant that uses up its turns, returning
\* the result of the last one that succeeded)
retry_attempt_keepsGoing ==
  /\ prog = "fetch_users_with_retry"
  /\ d_pc = "func"
  /\ attempt < LoopTurns(retries)
  /\ \/ \E r \in Results :
          /\ history' = Append(history, "ok")
          /\ outcome' = <<"return", r>>
          /\ IF attempt + 1 < LoopTurns(retries)
               THEN attempt' = attempt + 1 /\ d_pc' = "func"
               ELSE attempt' = attempt /\ d_pc' = "finally"
          /\ UNCHANGED last_exception
     \/ \E x \in Exceptions :
          /\ history' = Append(history, x)
          /\ last_exception' = Remember(last_exception, x)
          /\ IF SleepBeforeNext(attempt, retries)
               THEN /\ d_pc' = "sleep"
                    /\ UNCHANGED <<outcome, attempt>>
               ELSE retry_next_turn
  /\ UNCHANGED <<prog, rows, genVars, connVars, calls, callOpened, txnVars,
                 retries, sleeps, cacheVars>>
  /\ UNCHANGED <<aggVars, asyncVars, restVars>>

retry_attempt ==
  /\ prog = "fetch_users_with_retry"
  /\ d_pc = "func"
  /\ attempt < LoopTurns(retries)
  /\ \/ \E r \in Results :
          /\ history' = Append(history, "ok")
          /\ outcome' = <<"return", r>>
          /\ d_pc' = "finally"
          /\ UNCHANGED <<last_exception, attempt>>
     \/ \E x \in Exceptions :
          /\ history' = Append(history, x)
          /\ last_exception' = Remember(last_exception, x)
          /\ IF SleepBeforeNext(attempt, retries)
               THEN /\ d_pc' = "sleep"
                    /\ UNCHANGED <<outcome, attempt>>
               ELSE retry_next_turn
  /\ UNCHANGED <<prog, rows, genVars, connVars, calls, callOpened, txnVars,
                 retries, sleeps, cacheVars>>
  /\ UNCHANGED <<aggVars, asyncVars, restVars>>

\* time.sleep(delay), then the next turn of the loop; the connection that
\* with_db_connection opened around the retry layer is not touched
\* (retry_sleep_releases: the variant that gives the connection back first)
retry_sleep_releases ==
  /\ prog = "fetch_users_with_retry"
  /\ d_pc = "sleep"
  /\ sleeps' = sleeps + 1
  /\ connection' = "closed"
  /\ closeCalls' = closeCalls + 1
  /\ last_exception' = last_exception
  /\ retry_next_turn
  /\ UNCHANGED <<prog, rows, genVars, opened, calls, callOpened,
                 txnVars, retries, history, cacheVars>>
  /\ UNCHANGED <<aggVars, asyncVars, restVars>>

retry_sleep ==
  /\ prog = "fetch_users_with_retry"
  /\ d_pc = "sleep"
  /\ sleeps' = sleeps + 1
  /\ last_exception' = last_exception
  /\ retry_next_turn
  /\ UNCHANGED <<prog, rows, genVars, connVars, calls, callOpened,
                 txnVars, retries, history, cacheVars>>
  /\ UNCHANGED <<aggVars, asyncVars, restVars>>

\* --------------------------------------------------- 4-cache_query.py
\* `if query:` (Truthy_always: the variant that takes every query for a key)
Truthy_always(q) == TRUE
Truthy(q) == q # ""

\* the key of a query in query_cache: the text itself, as passed
\* (CacheKey_caseFolded: the variant that folds the spellings together)
CacheKey_caseFolded(q) ==
  IF q = "SELECT * FROM users" THEN "select * from users" ELSE q
CacheKey(q) == q

\* `query in query_cache` (InCache_never: the variant that always misses)
InCache_never(cache, q) == FALSE
InCache(cache, q) == q \in DOMAIN cache

\* `query_cache[query] = result` (CacheStore_dropped: the variant that
\* forgets to store)
CacheStore_dropped(cache, q, r) == cache
CacheStore(cache, q, r) == (q :> r) @@ cache

\* cache_query's wrapper up to the hit return or the call of func
cache_lookup ==
  /\ prog = "fetch_users_with_cache"
  /\ d_pc = "func"
  /\ IF Truthy(query)
       THEN IF InCache(query_cache, CacheKey(query))
              THEN /\ outcome' = <<"return", query_cache[CacheKey(query)]>>
                   /\ d_pc' = "finally"
              ELSE /\ d_pc' = "miss"
                   /\ UNCHANGED outcome
       ELSE /\ d_pc' = "bypass"
            /\ UNCHANGED outcome
  /\ UNCHANGED <<prog, rows, genVars, connVars, calls, callOpened, txnVars,
                 retryVars, cacheVars>>
  /\ UNCHANGED <<aggVars, asyncVars, restVars>>

\* func(*args, **kwargs) is fetch_users_with_cache's body; on a miss its
\* result is stored; an exception leaves the wrapper at once
\* (cache_func_storesFailure: the variant that stores the exception of a
\* failed miss as the entry of its key)
cache_func_storesFailure ==
  /\ prog = "fetch_users_with_cache"
  /\ d_pc \in {"miss", "bypass"}
  /\ invoked' = [invoked EXCEPT ![query] = @ + 1]
  /\ callInvoked' = callInvoked + 1
  /\ \/ \E r \in Results :
          /\ succeeded' = [succeeded EXCEPT ![query] = @ + 1]
          /\ query_cache' = IF d_pc = "miss"
                              THEN CacheStore(query_cache, CacheKey(query), r)
                              ELSE query_cache
          /\ cached_by' = IF d_pc = "miss" /\ query_cache' # query_cache
                            THEN (CacheKey(query) :> query) @@ cached_by
                            ELSE cached_by
          /\ outcome' = <<"return", r>>
     \/ \E x \in Exceptions :
          /\ outcome' = <<"raise", x>>
          /\ query_cache' = IF d_pc = "miss"
                              THEN CacheStore(query_cache, CacheKey(query), x)
                              ELSE query_cache
          /\ UNCHANGED <<succeeded, cached_by>>
  /\ d_pc' = "finally"
  /\ UNCHANGED <<prog, rows, genVars, connVars, calls, callOpened, txnVars,
                 retryVars, query, was_cached>>
  /\ UNCHANGED <<aggVars, asyncVars, restVars>>

cache_func ==
  /\ prog = "fetch_users_with_cache"
  /\ d_pc \in {"miss", "bypass"}
  /\ invoked' = [invoked EXCEPT ![query] = @ + 1]
  /\ callInvoked' = callInvoked + 1
  /\ \/ \E r \in Results :
          /\ succeeded' = [succeeded EXCEPT ![query] = @ + 1]
          /\ query_cache' = IF d_pc = "miss"
                              THEN CacheStore(query_cache, CacheKey(query), r)
                              ELSE query_cache
          /\ cached_by' = IF d_pc = "miss" /\ query_cache' # query_cache
                            THEN (CacheKey(query) :> query) @@ cached_by
                            ELSE cached_by
          /\ outcome' = <<"return", r>>
     \/ \E x \in Exceptions :
          /\ outcome' = <<"raise", x>>
          /\ UNCHANGED <<succeeded, query_cache, cached_by>>
  /\ d_pc' = "finally"
  /\ UNCHANGED <<prog, rows, genVars, connVars, calls, callOpened, txnVars,
                 retryVars, query, was_cached>>
  /\ UNCHANGED <<aggVars, asyncVars, restVars>>

\* ------------------------- 4-cache_query.py called from several threads
\* the threads of Callers call fetch_users_with_cache(query=query) at the
\* same time.  query_cache is a plain dict: one `in` test, one subscript
\* read and one item assignment are each a single step of the interpreter;
\* the wrapper holds no lock from one of them to the next
InitConcurrentCache ==
  /\ prog = "concurrent_cache"
  /\ d_pc = "none"
  /\ retries = 0
  /\ calls = 0
  /\ outcome = NoOutcome
  /\ callOpened = 0
  /\ committed = [u \in Users |-> "old"]
  /\ pending = committed
  /\ before = committed
  /\ unit_writes = <<>>
  /\ unit_outcome = NoOutcome
  /\ exc = "none"
  /\ commits = 0
  /\ rollbacks = 0
  /\ attempt = 0
  /\ history = <<>>
  /\ sleeps = 0
  /\ last_exception = "None"
  /\ query \in {q \in Keys : Truthy(q)}
  /\ query_cache = <<>>
  /\ cached_by = <<>>
  /\ invoked = [q \in Keys |-> 0]
  /\ succeeded = [q \in Keys |-> 0]
  /\ was_cached = FALSE
  /\ callInvoked = 0
  /\ AggRest
  /\ fc_pc = "none"
  /\ AsyncRest
  /\ MoreRest
  /\ w_pc = "none"
  /\ stmt = "None"
  /\ csv = <<"missing">>
  /\ CtxRest
  /\ rows = <<>>
  /\ g_pc = "none"
  /\ StreamRest

ccUnchanged ==
  UNCHANGED <<prog, rows, connection, genVars, callVars, txnVars, retryVars,
              query, was_cached, callInvoked, aggVars, asyncVars, storeWrites,
              ctxVars>>

\* a thread enters: with_db_connection opens its connection, cache_query's
\* wrapper tests `query in query_cache` and, on a hit, returns the entry
cc_lookup ==
  /\ prog = "concurrent_cache"
  /\ \E t \in Callers :
       /\ t_pc[t] = "idle"
       /\ IF InCache(query_cache, CacheKey(query))
            THEN /\ t_pc' = [t_pc EXCEPT ![t] = "done"]
                 /\ t_ret' = [t_ret EXCEPT ![t] =
                                <<"return", query_cache[CacheKey(query)]>>]
                 /\ closeCalls' = closeCalls + 1
            ELSE /\ t_pc' = [t_pc EXCEPT ![t] = "miss"]
                 /\ UNCHANGED <<t_ret, closeCalls>>
  /\ opened' = opened + 1
  /\ UNCHANGED <<query_cache, cached_by, invoked, succeeded, t_computed,
                 writers>>
  /\ ccUnchanged

\* result = func(*args, **kwargs): the query runs on the thread's connection
cc_func ==
  /\ prog = "concurrent_cache"
  /\ \E t \in Callers :
       /\ t_pc[t] = "miss"
       /\ invoked' = [invoked EXCEPT ![query] = @ + 1]
       /\ \/ \E r \in Results :
               /\ t_computed' = [t_computed EXCEPT ![t] = r]
               /\ succeeded' = [succeeded EXCEPT ![query] = @ + 1]
               /\ t_pc' = [t_pc EXCEPT ![t] = "computed"]
               /\ UNCHANGED <<t_ret, closeCalls>>
          \/ \E x \in Exceptions :
               /\ t_ret' = [t_ret EXCEPT ![t] = <<"raise", x>>]
               /\ t_pc' = [t_pc EXCEPT ![t] = "done"]
               /\ closeCalls' = closeCalls + 1
               /\ UNCHANGED <<t_computed, succeeded>>
  /\ UNCHANGED <<opened, query_cache, cached_by, writers>>
  /\ ccUnchanged

\* query_cache[query] = result; return result
\* (cc_store_keepsFirst: the variant that leaves an entry that is there)
cc_store_keepsFirst ==
  /\ prog = "concurrent_cache"
  /\ \E t \in Callers :
       /\ t_pc[t] = "computed"
       /\ query_cache' = IF CacheKey(query) \in DOMAIN query_cache
                           THEN query_cache
                           ELSE CacheStore(query_cache, CacheKey(query),
                                           t_computed[t])
       /\ cached_by' = (CacheKey(query) :> query) @@ cached_by
       /\ writers' = Append(writers, t)
       /\ t_ret' = [t_ret EXCEPT ![t] = <<"return", t_computed[t]>>]
       /\ t_pc' = [t_pc EXCEPT ![t] = "done"]
  /\ closeCalls' = closeCalls + 1
  /\ UNCHANGED <<opened, invoked, succeeded, t_computed>>
  /\ ccUnchanged

cc_store ==
  /\ prog = "concurrent_cache"
  /\ \E t \in Callers :
       /\ t_pc[t] = "computed"
       /\ query_cache' = CacheStore(query_cache, CacheKey(query), t_computed[t])
       /\ cached_by' = (CacheKey(query) :> query) @@ cached_by
       /\ writers' = Append(writers, t)
       /\ t_ret' = [t_ret EXCEPT ![t] = <<"return", t_computed[t]>>]
       /\ t_pc' = [t_pc EXCEPT ![t] = "done"]
  /\ closeCalls' = closeCalls + 1
  /\ UNCHANGED <<opened, invoked, succeeded, t_computed>>
  /\ ccUnchanged

\* ========================================================== 1-execute.py
NSampleEQ == 10     \* rows of sample_users in ExecuteQuery._ensure_sample_data

\* the state of the other scripts, which a context-manager script leaves alone
OthersRest ==
  /\ d_pc = "none"
  /\ retries = 0
  /\ DecorRest
  /\ AggRest
  /\ fc_pc = "none"
  /\ AsyncRest
  /\ MoreRest
  /\ g_pc = "none"
  /\ StreamRest

InitExecuteQuery ==
  /\ prog = "ExecuteQuery"
  /\ OthersRest
  /\ w_pc = "idle"
  /\ stmt \in {"None", "SELECT", "UPDATE"}
  /\ csv = <<"missing">>
  /\ CtxRest
  /\ rows \in {<<>>, [i \in 1..NSampleEQ |-> i]}

ctxUnchanged ==
  UNCHANGED <<prog, genVars, decorVars, aggVars, asyncVars, storeWrites, ccVars>>

\* ExecuteQuery._cleanup on a manager whose fields are conn and cur:
\* cursor.close() if there is a cursor, connection.close() if there is a
\* connection (cleanup_cursorOnly: the variant that forgets the connection)
cleanup_cursorOnly(conn, cur) ==
  /\ cursor' = IF cur = "open" THEN "closed" ELSE cur
  /\ cursorCloses' = cursorCloses + (IF cur = "open" THEN 1 ELSE 0)
  /\ connection' = conn
  /\ closeCalls' = closeCalls

cleanup(conn, cur) ==
  /\ cursor' = IF cur = "open" THEN "closed" ELSE cur
  /\ cursorCloses' = cursorCloses + (IF cur = "open" THEN 1 ELSE 0)
  /\ connection' = IF conn = "open" THEN "closed" ELSE conn
  /\ closeCalls' = closeCalls + (IF conn = "open" THEN 1 ELSE 0)

\* _ensure_sample_data on table t: the sample rows go in when the table is
\* empty; an sqlite3.Error inside it is printed and swallowed
ensure_sample_data(t, ok) ==
  IF ok /\ Len(t) = 0 THEN [i \in 1..NSampleEQ |-> i] ELSE t

\* __enter__ left by an exception: _cleanup(), then `raise`
eq_enter_fails(conn, cur, e) ==
  /\ cleanup(conn, cur)
  /\ w_exc' = e
  /\ results' = <<"None">>
  /\ w_pc' = "idle"
  /\ calls' = calls + 1

\* `with ExecuteQuery(db, query, parameters) as results:` -- __init__ and
\* __enter__: connect, seed, execute the query, fetch or commit
eq_enter ==
  /\ prog = "ExecuteQuery"
  /\ w_pc = "idle"
  /\ calls < MaxCalls
  /\ body_out' = "none"
  /\ \/ \* sqlite3.connect raises: there is nothing to clean up
        /\ eq_enter_fails("None", "None", "OperationalError")
        /\ UNCHANGED <<opened, rows>>
     \/ /\ opened' = opened + 1
        /\ \E seedOk \in BOOLEAN :
             rows' = ensure_sample_data(rows, seedOk)
        /\ IF stmt = "None"
             THEN /\ results' = <<"list", <<>>>>
                  /\ w_pc' = "body"
                  /\ connection' = "open"
                  /\ cursor' = "open"
                  /\ w_exc' = "none"
                  /\ UNCHANGED <<calls, closeCalls, cursorCloses>>
             ELSE \/ \* execute (or commit) raises sqlite3.Error
                     eq_enter_fails("open", "open", "OperationalError")
                  \/ /\ results' = <<"list", IF stmt = "SELECT" THEN rows'
                                                 ELSE <<>>>>
                     /\ w_pc' = "body"
                     /\ connection' = "open"
                     /\ cursor' = "open"
                     /\ w_exc' = "none"
                     /\ UNCHANGED <<calls, closeCalls, cursorCloses>>
  /\ UNCHANGED <<stmt, conn_rows, seedings, csv, after_first>>
  /\ UNCHANGED <<outcome, d_pc, callOpened>>
  /\ UNCHANGED <<prog, genVars, txnVars, retryVars, cacheVars, aggVars,
                 asyncVars, storeWrites, ccVars>>

\* the body of the with statement runs to its end or raises
eq_body ==
  /\ prog = "ExecuteQuery"
  /\ w_pc = "body"
  /\ \/ body_out' = "none"
     \/ \E x \in Exceptions : body_out' = x
  /\ w_pc' = "exit"
  /\ UNCHANGED <<rows, connVars, cursor, cursorCloses, w_exc, stmt, results,
                 conn_rows, seedings, csv, after_first>>
  /\ ctxUnchanged

\* __exit__: _cleanup(); False when there is an exception, so it goes on
eq_exit ==
  /\ prog = "ExecuteQuery"
  /\ w_pc = "exit"
  /\ cleanup(connection, cursor)
  /\ w_exc' = body_out
  /\ w_pc' = "idle"
  /\ calls' = calls + 1
  /\ UNCHANGED <<rows, opened, body_out, stmt, results, conn_rows, seedings,
                 csv, after_first>>
  /\ UNCHANGED <<outcome, d_pc, callOpened>>
  /\ UNCHANGED <<prog, genVars, txnVars, retryVars, cacheVars, aggVars,
                 asyncVars, storeWrites, ccVars>>

\* ================================================ 0-databaseconnection.py
NSampleDC == 5      \* rows of sample_users in DatabaseConnection.__enter__

InitDatabaseConnection ==
  /\ prog = "DatabaseConnection"
  /\ OthersRest
  /\ w_pc = "idle"
  /\ stmt = "None"
  /\ csv = <<"missing">>
  /\ CtxRest
  /\ rows \in {<<>>, [i \in 1..NSampleDC |-> i]}

\* __enter__ left by an exception after connect: the except clause closes
\* the connection (not the cursor) and re-raises
dc_enter_fails ==
  /\ connection' = "closed"
  /\ closeCalls' = closeCalls + 1
  /\ cursor' = "open"
  /\ w_exc' = "OperationalError"
  /\ w_pc' = "idle"
  /\ calls' = calls + 1
  /\ UNCHANGED <<rows, conn_rows, seedings>>

\* `with DatabaseConnection() as cursor:` -- __init__ and __enter__: connect,
\* create the table, insert the sample rows if the table is empty
dc_enter ==
  /\ prog = "DatabaseConnection"
  /\ w_pc = "idle"
  /\ calls < MaxCalls
  /\ body_out' = "none"
  /\ \/ \* sqlite3.connect raises: self.connection is None
        /\ connection' = "None"
        /\ cursor' = "None"
        /\ w_exc' = "OperationalError"
        /\ w_pc' = "idle"
        /\ calls' = calls + 1
        /\ UNCHANGED <<opened, closeCalls, rows, conn_rows, seedings>>
     \/ /\ opened' = opened + 1
        /\ \/ \* an execute, executemany or the commit raises: what was
              \* inserted is not committed and goes with the connection
              dc_enter_fails
           \/ /\ IF Len(rows) = 0
                   THEN /\ rows' = [i \in 1..NSampleDC |-> i]
                        /\ seedings' = seedings + 1
                   ELSE UNCHANGED <<rows, seedings>>
              /\ conn_rows' = rows'
              /\ connection' = "open"
              /\ cursor' = "open"
              /\ w_exc' = "none"
              /\ w_pc' = "body"
              /\ UNCHANGED <<calls, closeCalls>>
  /\ UNCHANGED <<cursorCloses, stmt, results, csv, after_first>>
  /\ UNCHANGED <<outcome, d_pc, callOpened>>
  /\ UNCHANGED <<prog, genVars, txnVars, retryVars, cacheVars, aggVars,
                 asyncVars, storeWrites, ccVars>>

\* the body of the with statement: it may write through the cursor (a row
\* more, not yet committed), and it runs to its end or raises
dc_body ==
  /\ prog = "DatabaseConnection"
  /\ w_pc = "body"
  /\ \/ conn_rows' = conn_rows
     \/ conn_rows' = Append(conn_rows, NSampleDC + calls + 1)
  /\ \/ body_out' = "none"
     \/ \E x \in Exceptions : body_out' = x
  /\ w_pc' = "exit"
  /\ UNCHANGED <<rows, connVars, cursor, cursorCloses, w_exc, stmt, results,
                 seedings, csv, after_first>>
  /\ ctxUnchanged

\* __exit__: cursor.close(); connection.commit(); connection.close(), all
\* in one try whose except clause prints the sqlite3.Error; then False when
\* the body raised.  A commit with nothing to commit cannot fail
dc_exit ==
  /\ prog = "DatabaseConnection"
  /\ w_pc = "exit"
  /\ cursor' = "closed"
  /\ cursorCloses' = cursorCloses + 1
  /\ \/ \* commit() returns, close() follows
        /\ rows' = conn_rows
        /\ connection' = "closed"
        /\ closeCalls' = closeCalls + 1
     \/ \* commit() raises: the except clause is entered, close() is skipped
        /\ conn_rows # rows
        /\ UNCHANGED <<rows, connection, closeCalls>>
  /\ w_exc' = body_out
  /\ w_pc' = "idle"
  /\ calls' = calls + 1
  /\ UNCHANGED <<opened, body_out, stmt, results, conn_rows, seedings, csv,
                 after_first>>
  /\ UNCHANGED <<outcome, d_pc, callOpened>>
  /\ UNCHANGED <<prog, genVars, txnVars, retryVars, cacheVars, aggVars,
                 asyncVars, storeWrites, ccVars>>

\* ========================================================= seed_sqlite.py
MaxCsv == 2         \* longest csv file tried

\* the csv files: a missing file, or its data rows, each one readable
\* ("ok") or with an age that int() rejects ("bad")
CsvFiles ==
  {<<"missing">>} \cup UNION {[1..n -> {"ok", "bad"}] : n \in 0..MaxCsv}

\* insert_data is handed a connection from connect_db(): rows is what is
\* committed to user_data, conn_rows what the connection sees (its own
\* uncommitted inserts included)
InitInsertData ==
  /\ prog = "insert_data"
  /\ OthersRest
  /\ w_pc = "idle"
  /\ stmt = "None"
  /\ csv \in CsvFiles
  /\ cursor = "None"
  /\ cursorCloses = 0
  /\ w_exc = "none"
  /\ body_out = "none"
  /\ results = <<"None">>
  /\ seedings = 0
  /\ after_first = <<>>
  /\ rows \in {<<>>, <<1>>, <<1, 2>>}
  /\ conn_rows = rows

\* `if count > 0:` -- the table already has data
\* (AlreadyPopulated_never: the variant that loads every time)
AlreadyPopulated_never(cnt) == FALSE

AlreadyPopulated(cnt) == cnt > 0

\* the rows of file f before its first unreadable one
RECURSIVE GoodPrefix(_)
GoodPrefix(f) ==
  IF f = <<>> \/ Head(f) = "bad" THEN 0 ELSE 1 + GoodPrefix(Tail(f))

\* the row ids the k first rows of the file get in call c: user_id is a
\* fresh uuid4 each time
NewIds(c, k) == [i \in 1..k |-> <<c, i>>]

\* insert_data(connection, csv_file): the whole function.  Every exception
\* is caught and printed; the inserts made before it are neither committed
\* nor rolled back
insert_data ==
  /\ prog = "insert_data"
  /\ w_pc = "idle"
  /\ calls < MaxCalls
  /\ IF AlreadyPopulated(Len(conn_rows))
       THEN /\ cursorCloses' = cursorCloses + 1
            /\ body_out' = "populated"
            /\ UNCHANGED <<rows, conn_rows>>
       ELSE IF csv = <<"missing">>
         THEN /\ body_out' = "FileNotFoundError"
              /\ UNCHANGED <<rows, conn_rows, cursorCloses>>
         ELSE IF GoodPrefix(csv) < Len(csv)
           THEN /\ conn_rows' = conn_rows \o NewIds(calls + 1, GoodPrefix(csv))
                /\ body_out' = "ValueError"
                /\ UNCHANGED <<rows, cursorCloses>>
           ELSE /\ conn_rows' = conn_rows \o NewIds(calls + 1, Len(csv))
                /\ rows' = conn_rows'
                /\ cursorCloses' = cursorCloses + 1
                /\ body_out' = "inserted"
  /\ after_first' = IF calls = 0 THEN <<conn_rows', rows'>> ELSE after_first
  /\ calls' = calls + 1
  /\ UNCHANGED <<connVars, w_pc, cursor, w_exc, stmt, results, seedings, csv>>
  /\ UNCHANGED <<outcome, d_pc, callOpened>>
  /\ UNCHANGED <<prog, genVars, txnVars, retryVars, cacheVars, aggVars,
                 asyncVars, storeWrites, ccVars>>

\* ======================================================= 3-concurrent.py
InitConcurrent ==
  /\ prog = "fetch_concurrently"
  /\ d_pc = "none"
  /\ retries = 0
  /\ DecorRest
  /\ AggRest
  /\ fc_pc = "idle"
  /\ AsyncRest
  /\ MoreRest
  /\ w_pc = "none"
  /\ stmt = "None"
  /\ csv = <<"missing">>
  /\ CtxRest
  /\ \E n \in 0..MaxRows : rows \in [1..n -> Ages]
  /\ g_pc = "none"
  /\ StreamRest

RECURSIVE InsertDesc(_, _)
InsertDesc(a, t) ==
  IF t = <<>> THEN <<a>>
  ELSE IF a >= Head(t) THEN <<a>> \o t
  ELSE <<Head(t)>> \o InsertDesc(a, Tail(t))

RECURSIVE SortDesc(_)
SortDesc(t) == IF t = <<>> THEN <<>> ELSE InsertDesc(Head(t), SortDesc(Tail(t)))

IsOlder(a) == a > 40

\* the query of unit i over table t (rows stand for their age; t is in
\* ORDER BY name):  1: SELECT * FROM users ORDER BY name
\*                  2: SELECT * FROM users WHERE age > 40 ORDER BY age DESC
UnitQuery(i, t) == IF i = 1 THEN t ELSE SortDesc(SelectSeq(t, IsOlder))

\* aiosqlite.connect(database_name): every call makes a connection of its own
\* (Acquire_shared: the variant that hands out one handle to every caller)
Acquire_shared(hs, i) == 1
Acquire(hs, i) == Len(hs) + 1

\* except Exception as e: print(...); return []
\* (OnUnitError_reraise: the variant that lets the exception out)
OnUnitError_reraise(e) == <<"raise", e>>
OnUnitError(e) == <<"return", <<>>>>

\* the value of `await asyncio.gather(c1, c2)`: the results in the order of
\* the arguments (GatherResults_asCompleted: in the order of completion)
GatherResults_asCompleted(out, order) == [k \in Units |-> out[order[k]][2]]
GatherResults(out, order) == [i \in Units |-> out[i][2]]

\* asyncio.gather(c1, c2) wraps each coroutine in a task and schedules all of
\* them, in argument order, before fetch_concurrently suspends
\* (fc_gather_sequential: `await c1` first, as the sequential comparison does)
fc_gather_sequential ==
  /\ prog = "fetch_concurrently"
  /\ fc_pc = "idle"
  /\ fc_pc' = "gathering"
  /\ u_pc' = [i \in Units |-> "new"]
  /\ ready' = <<1>>
  /\ UNCHANGED <<u_io, u_db, u_err, u_users, u_out, u_failed, handles,
                 completion, fc_result>>
  /\ UNCHANGED <<prog, rows, connVars, genVars, decorVars, aggVars, restVars>>

fc_gather ==
  /\ prog = "fetch_concurrently"
  /\ fc_pc = "idle"
  /\ fc_pc' = "gathering"
  /\ u_pc' = [i \in Units |-> "new"]
  /\ ready' = [i \in Units |-> i]
  /\ UNCHANGED <<u_io, u_db, u_err, u_users, u_out, u_failed, handles,
                 completion, fc_result>>
  /\ UNCHANGED <<prog, rows, connVars, genVars, decorVars, aggVars, restVars>>

\* the coroutine of unit i ends with outcome o
unit_ends(i, o) ==
  /\ u_pc' = [u_pc EXCEPT ![i] = "done"]
  /\ u_io' = [u_io EXCEPT ![i] = "none"]
  /\ u_out' = [u_out EXCEPT ![i] = o]
  /\ completion' = Append(completion, i)

\* the loop runs the oldest ready task, a unit that has not run yet: the
\* coroutine runs to `async with aiosqlite.connect(...)` and suspends there
unit_start ==
  /\ prog = "fetch_concurrently"
  /\ ready # <<>>
  /\ LET i == Head(ready) IN
       /\ u_pc[i] = "new"
       /\ u_pc' = [u_pc EXCEPT ![i] = "connecting"]
       /\ u_io' = [u_io EXCEPT ![i] = "pending"]
  /\ ready' = Tail(ready)
  /\ UNCHANGED <<fc_pc, u_db, u_err, u_users, u_out, u_failed, handles,
                 completion, fc_result>>
  /\ UNCHANGED <<prog, rows, connVars, genVars, decorVars, aggVars, restVars>>

\* the operation a unit awaits finishes (on aiosqlite's thread), well or
\* with an exception; its task joins the end of the ready queue
io_complete ==
  /\ prog = "fetch_concurrently"
  /\ \E i \in Units :
       /\ u_io[i] = "pending"
       /\ \E r \in (IF u_pc[i] = "closing" THEN {"ok"} ELSE {"ok", "fail"}) :
            u_io' = [u_io EXCEPT ![i] = r]
       /\ ready' = Append(ready, i)
  /\ UNCHANGED <<fc_pc, u_pc, u_db, u_err, u_users, u_out, u_failed, handles,
                 completion, fc_result>>
  /\ UNCHANGED <<prog, rows, connVars, genVars, decorVars, aggVars, restVars>>

\* resumed after connect: `db` is bound and db.execute(...) is awaited, or
\* the connect error reaches the except clause
unit_connected ==
  /\ prog = "fetch_concurrently"
  /\ ready # <<>>
  /\ LET i == Head(ready) IN
       /\ u_pc[i] = "connecting"
       /\ IF u_io[i] = "ok"
            THEN LET h == Acquire(handles, i) IN
                 /\ handles' =
                      IF h > Len(handles)
                        THEN Append(handles, [opener |-> i, users |-> {i},
                                              closers |-> {}, closes |-> 0,
                                              open |-> TRUE])
                        ELSE [handles EXCEPT ![h].users = @ \cup {i}]
                 /\ u_db' = [u_db EXCEPT ![i] = h]
                 /\ u_pc' = [u_pc EXCEPT ![i] = "querying"]
                 /\ u_io' = [u_io EXCEPT ![i] = "pending"]
                 /\ UNCHANGED <<u_out, u_failed, completion>>
            ELSE /\ unit_ends(i, OnUnitError("OperationalError"))
                 /\ u_failed' = [u_failed EXCEPT ![i] = TRUE]
                 /\ UNCHANGED <<handles, u_db>>
  /\ ready' = Tail(ready)
  /\ UNCHANGED <<fc_pc, u_err, u_users, fc_result>>
  /\ UNCHANGED <<prog, rows, connVars, genVars, decorVars, aggVars, restVars>>

\* resumed after execute / fetchall: the rows are bound to `users`, or an
\* exception is raised; either way both `async with` blocks are left and
\* the close of db is awaited
unit_fetched ==
  /\ prog = "fetch_concurrently"
  /\ ready # <<>>
  /\ LET i == Head(ready) IN
       /\ u_pc[i] = "querying"
       /\ IF u_io[i] = "ok"
            THEN /\ u_users' = [u_users EXCEPT ![i] = UnitQuery(i, rows)]
                 /\ UNCHANGED <<u_err, u_failed>>
            ELSE /\ u_err' = [u_err EXCEPT ![i] = TRUE]
                 /\ u_failed' = [u_failed EXCEPT ![i] = TRUE]
                 /\ UNCHANGED u_users
       /\ u_pc' = [u_pc EXCEPT ![i] = "closing"]
       /\ u_io' = [u_io EXCEPT ![i] = "pending"]
  /\ ready' = Tail(ready)
  /\ UNCHANGED <<fc_pc, u_db, u_out, handles, completion, fc_result>>
  /\ UNCHANGED <<prog, rows, connVars, genVars, decorVars, aggVars, restVars>>

\* resumed after the close of db: `return users`, or the except clause
unit_closed ==
  /\ prog = "fetch_concurrently"
  /\ ready # <<>>
  /\ LET i == Head(ready) IN
       /\ u_pc[i] = "closing"
       /\ handles' = [handles EXCEPT ![u_db[i]].open = FALSE,
                                     ![u_db[i]].closes = @ + 1,
                                     ![u_db[i]].closers = @ \cup {i}]
       /\ IF u_err[i]
            THEN unit_ends(i, OnUnitError("OperationalError"))
            ELSE unit_ends(i, <<"return", u_users[i]>>)
  /\ ready' = Tail(ready)
  /\ UNCHANGED <<fc_pc, u_db, u_err, u_users, u_failed, fc_result>>
  /\ UNCHANGED <<prog, rows, connVars, genVars, decorVars, aggVars, restVars>>

\* gather is over: every task has a result and fetch_concurrently returns them
\* as a tuple, or a task raised and the except clause returns [], []
fc_return ==
  /\ prog = "fetch_concurrently"
  /\ fc_pc = "gathering"
  /\ IF \E i \in Units : u_out[i][1] = "raise"
       THEN fc_result' = [i \in Units |-> <<>>]
       ELSE /\ \A i \in Units : u_pc[i] = "done"
            /\ fc_result' = GatherResults(u_out, completion)
  /\ fc_pc' = "returned"
  /\ UNCHANGED <<ready, u_pc, u_io, u_db, u_err, u_users, u_out, u_failed,
                 handles, completion>>
  /\ UNCHANGED <<prog, rows, connVars, genVars, decorVars, aggVars, restVars>>

Init ==
  \/ InitStream
  \/ InitDecor
  \/ InitAverage
  \/ InitConcurrent
  \/ InitConcurrentCache
  \/ InitExecuteQuery
  \/ InitDatabaseConnection
  \/ InitInsertData

Next ==
  \/ su_start
  \/ su_resume
  \/ sb_start
  \/ sb_resume
  \/ lp_start
  \/ lp_resume
  \/ abandon
  \/ collect
  \/ wdc_call
  \/ wdc_finally
  \/ get_user_by_id
  \/ txn_execute
  \/ txn_return
  \/ txn_commit
  \/ txn_except
  \/ retry_attempt
  \/ retry_sleep
  \/ cache_lookup
  \/ cache_func
  \/ age_start
  \/ age_next
  \/ fc_gather
  \/ unit_start
  \/ io_complete
  \/ unit_connected
  \/ unit_fetched
  \/ unit_closed
  \/ fc_return
  \/ store_write
  \/ cc_lookup
  \/ cc_func
  \/ cc_store
  \/ eq_enter
  \/ eq_body
  \/ eq_exit
  \/ dc_enter
  \/ dc_body
  \/ dc_exit
  \/ insert_data

Spec == Init /\ [][Next]_vars

\* the consumer of a batch or page stream asks for the next element:
\* `for batch in stream_users_in_batches(b)`, `list(lazy_pagination(p))`
Pull ==
  \/ sb_start
  \/ sb_resume
  \/ lp_start
  \/ lp_resume

\* the programs with a consumer that keeps pulling for as long as the
\* stream has not ended
FairSpec == Spec /\ WF_vars(Pull)

\* ================================================================ claims
BatchDone ==
  /\ prog = "stream_users_in_batches"
  /\ g_pc = "exhausted"
  /\ connection = "closed"

\* C1: a full traversal of stream_users_in_batches(b), b >= 1, over a store
\* that was reached and that nobody else wrote to meanwhile yields batches whose concatenation is the whole table
\* in order, and yields ceil(n/b) of them (none when the table is empty)
C1_BatchesCoverRows ==
  (BatchDone /\ batch_size >= 1 /\ storeWrites = 0)
    => /\ Flatten(yielded) = rows
       /\ Len(yielded) = Ceil(Len(rows), batch_size)

C1_Witness ==
  /\ BatchDone
  /\ Len(yielded) >= 2
  /\ Len(yielded[Len(yielded)]) < batch_size

\* C2: the pages of a full traversal of lazy_pagination(p), p >= 1, put
\* together in yield order are the rows of the unbounded query
C2_PagesMatchUnboundedQuery ==
  (prog = "lazy_pagination" /\ g_pc = "exhausted" /\ batch_size >= 1
     /\ storeWrites = 0)
    => Flatten(yielded) = rows

C2_Witness ==
  /\ prog = "lazy_pagination"
  /\ g_pc = "exhausted"
  /\ Len(yielded) >= 2
  /\ batch_size >= 2
  /\ Len(rows) = MaxRows

RetryDone ==
  /\ prog = "fetch_users_with_retry"
  /\ d_pc = "idle"
  /\ calls > 0
  /\ callOpened = 1

AllFailed == history # <<>> /\ \A i \in 1..Len(history) : history[i] # "ok"

FailsTwiceThenSucceeds ==
  /\ Len(history) >= 3
  /\ history[1] # "ok"
  /\ history[2] # "ok"
  /\ history[3] = "ok"

\* C3 as stated: with the limit 3 a unit that always fails is invoked
\* exactly 3 times before the failure is surfaced, and one that fails twice
\* and then succeeds is invoked exactly 3 times and its result is returned
C3_ThreeInvocations ==
  (RetryDone /\ retries = 3)
    => /\ AllFailed => (Len(history) = 3 /\ outcome[1] = "raise")
       /\ FailsTwiceThenSucceeds => (Len(history) = 3 /\ outcome[1] = "return")

\* C3 amended: with retries = 3 a unit that always fails is invoked exactly
\* 4 times (the first attempt and 3 retries) and the last failure is
\* surfaced; one that fails twice and then succeeds is invoked exactly 3
\* times and its result is returned
C3_InitialPlusRetries ==
  (RetryDone /\ retries = 3)
    => /\ AllFailed => /\ Len(history) = 4
                       /\ outcome = <<"raise", history[4]>>
       /\ FailsTwiceThenSucceeds => (Len(history) = 3 /\ outcome[1] = "return")

C3_Witness ==
  /\ RetryDone
  /\ retries = 3
  /\ AllFailed
  /\ Len(history) = 4
  /\ outcome[1] = "raise"

\* C4: under cache_query, called by one caller at a time, the function is
\* invoked successfully once per non-empty key: a key is in query_cache
\* exactly when its one successful invocation happened, a call that finds its key cached returns the stored
\* result, and a stored entry is never removed, replaced or recomputed
C4_OncePerKey ==
  /\ [](prog = "fetch_users_with_cache" =>
         /\ \A q \in Keys \ {""} :
              /\ succeeded[q] <= 1
              /\ (q \in DOMAIN query_cache) <=> (succeeded[q] = 1)
         /\ (d_pc = "idle" /\ calls > 0 /\ callOpened = 1
               /\ was_cached /\ Truthy(query))
              => outcome = <<"return", query_cache[query]>>)
  /\ [][prog = "fetch_users_with_cache" =>
          \A q \in DOMAIN query_cache :
            /\ q \in DOMAIN query_cache'
            /\ query_cache'[q] = query_cache[q]
            /\ invoked'[q] = invoked[q]]_vars

C4_Witness ==
  /\ prog = "fetch_users_with_cache"
  /\ d_pc = "idle"
  /\ calls = 3
  /\ DOMAIN query_cache = {"SELECT * FROM users", "select * from users"}
  /\ invoked["SELECT * FROM users"] = 1
  /\ invoked["select * from users"] = 1
  /\ was_cached

CacheHitCall ==
  /\ prog = "fetch_users_with_cache"
  /\ d_pc \in {"finally", "idle"}
  /\ callOpened = 1
  /\ Truthy(query)
  /\ was_cached

\* C5 as stated: a call of fetch_users_with_cache that hits the cache
\* opens no connection
C5_HitOpensNoConnection == CacheHitCall => callOpened = 0

\* C5 amended: a call of fetch_users_with_cache that hits the cache returns
\* the cached result without invoking the function under cache_query; the
\* call has opened exactly one connection, which is closed when it returns
C5_HitSkipsQueryOnly ==
  CacheHitCall => /\ outcome = <<"return", query_cache[query]>>
                  /\ callInvoked = 0
                  /\ callOpened = 1
                  /\ (d_pc = "idle" => connection = "closed")

C5_Witness ==
  /\ CacheHitCall
  /\ d_pc = "idle"
  /\ callInvoked = 0
  /\ connection = "closed"
  /\ opened = 2

TxnEnded ==
  /\ prog = "update_user_email"
  /\ d_pc \in {"finally", "idle"}
  /\ unit_outcome # NoOutcome

\* C6 as stated: if the unit returns, commit is invoked and the unit's
\* result is returned; if it raises, rollback is invoked and the same
\* failure reaches the caller
C6_CommitOrRollback ==
  TxnEnded => IF unit_outcome[1] = "return"
                THEN commits = 1 /\ outcome = unit_outcome
                ELSE rollbacks = 1 /\ outcome = unit_outcome

\* C6 amended: if the unit returns, commit is invoked and, when the commit
\* succeeds, the unit's result is returned; when the commit itself raises,
\* rollback is invoked and the commit's failure reaches the caller.  If the
\* unit raises, rollback is invoked, commit is not, and then the failure
\* the unit raised reaches the caller unchanged
C6_CommitOrRollbackUnlessCommitFails ==
  /\ TxnEnded =>
       IF unit_outcome[1] = "return"
         THEN /\ commits = 1
              /\ exc = "none" => (outcome = unit_outcome /\ rollbacks = 0)
              /\ exc # "none" => /\ exc = "CommitError"
                                 /\ rollbacks = 1
                                 /\ outcome = <<"raise", exc>>
         ELSE /\ rollbacks = 1
              /\ commits = 0
              /\ outcome = unit_outcome
  /\ (prog = "update_user_email" /\ d_pc = "except") => outcome = NoOutcome

C6_Witness ==
  /\ TxnEnded
  /\ d_pc = "idle"
  /\ unit_outcome[1] = "raise"
  /\ rollbacks = 1
  /\ outcome = unit_outcome

\* C7: once a transactional call that wrote and then raised is over, the
\* store shows none of its writes; once a transactional call that
\* completed normally is over, the store shows all of them
C7_AllOrNothing ==
  TxnEnded => /\ outcome[1] = "raise" => committed = before
              /\ outcome[1] = "return" => committed = Apply(before, unit_writes)

C7_Witness ==
  /\ TxnEnded
  /\ d_pc = "idle"
  /\ unit_outcome[1] = "raise"
  /\ Len(unit_writes) >= 1
  /\ Apply(before, unit_writes) # before
  /\ committed = before

\* C8: a connection opened by with_db_connection is closed exactly once
\* before the call returns, on a normal return and on an exception; between
\* calls no connection it opened is open
C8_ConnectionClosedOnEveryExit ==
  prog \in DecorProgs =>
    IF d_pc = "idle"
      THEN closeCalls = opened /\ connection # "open"
      ELSE opened = closeCalls + 1 /\ connection = "open"

C8_Witness ==
  /\ prog = "get_user_by_id"
  /\ d_pc = "idle"
  /\ callOpened = 1
  /\ outcome[1] = "raise"
  /\ opened >= 2
  /\ closeCalls = opened

\* C9: once the consumer has abandoned a cursor stream or a batch stream
\* before its end, the stream's connection is released
C9_AbandonReleasesConnection ==
  (prog \in {"stream_users", "stream_users_in_batches"}
     /\ g_pc \in {"abandoned", "collected"})
    => connection \in {"closed", "finalized"}

\* C10: when the query or a row fetch of a cursor stream fails, the stream
\* fails with a fetch error and its connection is closed when the failure
\* reaches the consumer
C10_FetchFailureClosesConnection ==
  (prog = "stream_users" /\ g_pc = "raised")
    => (raised = "FetchError" /\ connection = "closed")

\* C11: stream_users consumed to the end over a store that was reached has
\* yielded exactly the rows of the table, each once and in cursor order,
\* and has closed its connection exactly once; the close comes after the
\* last row (while the stream is suspended at a row the connection is open
\* and no close has been made); the same holds for an empty table
C11_ExhaustedYieldsAllClosesOnce ==
  (prog = "stream_users" /\ opened = 1) =>
    /\ g_pc = "suspended" => /\ closeCalls = 0
                             /\ connection = "open"
                             /\ yielded = SubSeq(rows, 1, cursor_pos)
    /\ g_pc = "exhausted" => /\ yielded = rows
                             /\ closeCalls = 1
                             /\ connection = "closed"

C11_Witness ==
  /\ prog = "stream_users"
  /\ g_pc = "exhausted"
  /\ Len(rows) >= 2
  /\ yielded = rows
  /\ closeCalls = 1

\* C12 as stated: a batch stream opened with a batch size of 0 or less
\* issues no store query and ends in no other way than by an
\* invalid-argument error
C12_NonPositiveBatchSizeRejected ==
  (prog = "stream_users_in_batches" /\ batch_size < 1) =>
    /\ fetchCalls = 0
    /\ g_pc # "created" => (g_pc = "raised" /\ raised = "InvalidArgument")

RECURSIVE SumSeq(_)
SumSeq(t) == IF t = <<>> THEN 0 ELSE Head(t) + SumSeq(Tail(t))

\* C13: at every step of calculate_average_age the running total is the sum
\* of the ages consumed so far and the running count is their number; it
\* returns nothing before the stream has ended, and then returns 0 when
\* no age was yielded and sum / count otherwise, which for the ages
\* 25, 35, 45, 30, 42, 38 is 215 / 6
C13_AverageIsSumOverCount ==
  prog = "calculate_average_age" =>
    /\ total_age = SumSeq(yielded)
    /\ count = Len(yielded)
    /\ g_pc # "exhausted" => average = <<>>
    /\ g_pc = "exhausted" =>
         average = IF yielded = <<>> THEN <<0>>
                   ELSE <<SumSeq(yielded), Len(yielded)>>
    /\ (g_pc = "exhausted" /\ yielded = SampleAges) => average = <<215, 6>>

C13_Witness ==
  /\ prog = "calculate_average_age"
  /\ g_pc = "exhausted"
  /\ yielded = SampleAges
  /\ average = <<215, 6>>

ConcurrentReturned == prog = "fetch_concurrently" /\ fc_pc = "returned"

\* C14: fetch_concurrently returns one result per unit in the order the
\* units were passed: the first is what asyncfetchusers returned (all users
\* when its queries succeeded), the second what asyncfetcholder_users
\* returned (the users over 40), whatever the order of completion
C14_ResultsInInputOrder ==
  ConcurrentReturned =>
    /\ DOMAIN fc_result = Units
    /\ \A i \in Units :
         /\ fc_result[i] = u_out[i][2]
         /\ ~u_failed[i] => fc_result[i] = UnitQuery(i, rows)

C14_Witness ==
  /\ ConcurrentReturned
  /\ completion = <<2, 1>>
  /\ fc_result[1] = rows
  /\ fc_result[2] # <<>>
  /\ fc_result[1] # fc_result[2]

C16_AllStartBeforeAnyCompletes ==
  prog = "fetch_concurrently" =>
    /\ (\E i \in Units : u_pc[i] = "done") => (\A j \in Units : u_pc[j] # "new")
    /\ fc_pc = "returned" => (\A i \in Units : u_pc[i] = "done")

C16_Witness ==
  /\ prog = "fetch_concurrently"
  /\ fc_pc = "gathering"
  /\ u_pc[1] = "done"
  /\ u_pc[2] = "querying"

\* C17: every connection opened under fetch_concurrently is used and
\* closed by the unit that opened it and by no other, no two units hold
\* the same handle, and a unit that has completed has closed its
\* connection, once
C17_OneConnectionPerUnit ==
  prog = "fetch_concurrently" =>
    /\ \A h \in DOMAIN handles :
         /\ handles[h].users = {handles[h].opener}
         /\ handles[h].closers \subseteq {handles[h].opener}
         /\ u_db[handles[h].opener] = h
         /\ handles[h].closes <= 1
    /\ \A i, j \in Units : (i # j /\ u_db[i] # 0) => u_db[i] # u_db[j]
    /\ \A i \in Units :
         (u_pc[i] = "done" /\ u_db[i] # 0)
           => (~handles[u_db[i]].open /\ handles[u_db[i]].closes = 1)

C17_Witness ==
  /\ prog = "fetch_concurrently"
  /\ u_pc[1] = "querying"
  /\ u_pc[2] = "querying"
  /\ Len(handles) = 2
  /\ handles[1].open
  /\ handles[2].open

C19_NoConnectionWhileWaiting ==
  (prog = "fetch_users_with_retry" /\ d_pc = "sleep") => connection # "open"

\* C19 amended: in fetch_users_with_retry the connection scope is outside
\* the retry layer: the one connection opened before the first attempt is
\* open during every attempt and every wait between attempts, and it is
\* closed once, after the retry layer has returned or raised
C19_OneConnectionAroundRetries ==
  prog = "fetch_users_with_retry" =>
    /\ d_pc \in {"func", "sleep", "finally"}
         => (connection = "open" /\ callOpened = 1 /\ opened = closeCalls + 1)
    /\ d_pc = "idle" => (closeCalls = opened /\ connection # "open")

C19_Witness ==
  /\ prog = "fetch_users_with_retry"
  /\ d_pc = "sleep"
  /\ connection = "open"
  /\ Len(history) = 2

\* C20: the retry layer sleeps once between a failed attempt and the next
\* attempt and never after the last one: when an attempt begins every
\* earlier attempt was followed by one sleep, a sleep begins only when
\* another attempt is to come, and a finished call has slept once less
\* than the number of attempts it made
C20_SleepsBetweenAttemptsOnly ==
  (prog = "fetch_users_with_retry" /\ callOpened = 1) =>
    /\ d_pc = "func" => sleeps = Len(history)
    /\ d_pc = "sleep" => /\ sleeps = Len(history) - 1
                         /\ Len(history) < retries + 1
    /\ d_pc \in {"finally", "idle"} => sleeps = Len(history) - 1

C20_Witness ==
  /\ RetryDone
  /\ AllFailed
  /\ retries >= 2
  /\ sleeps = retries

\* C21: when every attempt of a call of fetch_users_with_retry has failed,
\* the exception that reaches the caller is the one the last attempt
\* raised, whatever the earlier attempts raised
C21_LastFailureSurfaced ==
  (RetryDone /\ AllFailed) => outcome = <<"raise", history[Len(history)]>>

C21_Witness ==
  /\ RetryDone
  /\ AllFailed
  /\ Len(history) >= 3
  /\ history[1] = "ValueError"
  /\ history[Len(history)] = "OperationalError"
  /\ outcome = <<"raise", "OperationalError">>

\* C22 as stated: a unit of work under the retry layer whose first attempt
\* fails with an invalid-argument failure is invoked that once only: no
\* sleep and no second attempt follow, and the failure is what the call ends
\* with
C22_InvalidArgumentNotRetried ==
  (prog = "fetch_users_with_retry" /\ callOpened = 1 /\ history # <<>>
     /\ history[1] = "ValueError")
    => /\ Len(history) = 1
       /\ d_pc \in {"finally", "idle"}
       /\ outcome = <<"raise", "ValueError">>

NoRepeats(t) == \A i, j \in 1..Len(t) : t[i] = t[j] => i = j

\* C23 as stated: a batch or page stream never yields a row that it has
\* yielded before in the same traversal, also when rows are inserted or
\* deleted between two window fetches
C23_NoRowYieldedTwice ==
  (prog \in WindowProgs /\ batch_size >= 1) => NoRepeats(Flatten(yielded))

\* C23 amended: a batch or page stream with size b >= 1 never yields a row
\* twice in a traversal during which no row is inserted into or deleted
\* from the store
C23_NoRowYieldedTwiceUnlessStoreWritten ==
  (prog \in WindowProgs /\ batch_size >= 1 /\ storeWrites = 0)
    => NoRepeats(Flatten(yielded))

C23_Witness ==
  /\ prog = "lazy_pagination"
  /\ g_pc = "exhausted"
  /\ batch_size = 2
  /\ storeWrites = 0
  /\ Len(yielded) >= 2
  /\ NoRepeats(Flatten(yielded))

\* C24: calls of fetch_users_with_cache whose query texts differ never
\* share an entry of the cache: every entry was stored by a call with
\* exactly the entry's key as its query, after that call invoked the
\* function; a call whose own text was not cached invokes the function
\* even if another spelling is cached; and a hit returns the entry stored
\* under the call's own text
C24_EntriesKeyedByExactText ==
  prog = "fetch_users_with_cache" =>
    /\ \A k \in DOMAIN query_cache : cached_by[k] = k /\ succeeded[k] = 1
    /\ (d_pc \in {"finally", "idle"} /\ callOpened = 1 /\ Truthy(query)) =>
         /\ ~was_cached => callInvoked = 1
         /\ was_cached => /\ callInvoked = 0
                          /\ cached_by[query] = query
                          /\ outcome = <<"return", query_cache[query]>>

C24_Witness ==
  /\ prog = "fetch_users_with_cache"
  /\ d_pc = "idle"
  /\ DOMAIN query_cache = {"SELECT * FROM users", "select * from users"}
  /\ query_cache["SELECT * FROM users"] # query_cache["select * from users"]
  /\ was_cached
  /\ outcome = <<"return", query_cache[query]>>

\* C25: when several threads run the cached fetch for one key at the same
\* time, in every interleaving the entry of the key, once there is one, is
\* the whole result that the thread which assigned it last computed; every
\* caller that returns, returns a whole result that one of the callers
\* computed for that key; and the number of invocations of the function is
\* the number of callers that missed, which may be all of them
C25_LastWriterWins ==
  prog = "concurrent_cache" =>
    /\ DOMAIN query_cache \subseteq {query}
    /\ (query \in DOMAIN query_cache) <=> (writers # <<>>)
    /\ writers # <<>> =>
         /\ query_cache[query] = t_computed[writers[Len(writers)]]
         /\ query_cache[query] \in Results
    /\ \A t \in Callers :
         (t_pc[t] = "done" /\ t_ret[t][1] = "return") =>
           \E u \in Callers : /\ t_computed[u] \in Results
                              /\ t_ret[t][2] = t_computed[u]
    /\ invoked[query] =
         Cardinality({t \in Callers : t_pc[t] = "computed" \/ t_computed[t] # "none"
                                      \/ t_ret[t][1] = "raise"})

C25_Witness ==
  /\ prog = "concurrent_cache"
  /\ \A t \in Callers : t_pc[t] = "done"
  /\ invoked[query] = MaxCallers
  /\ Len(writers) = MaxCallers
  /\ t_computed[writers[1]] # t_computed[writers[Len(writers)]]
  /\ query_cache[query] = t_computed[writers[Len(writers)]]

\* C26: ExecuteQuery closes every connection it opens, once: while the
\* body of the with statement runs its connection is open and is the only
\* one not closed, and when the statement is over -- __enter__ failed and
\* re-raised, the body raised and the exception went on, or the body ended
\* -- as many connections have been closed as were opened
C26_ExecuteQueryClosesOnce ==
  prog = "ExecuteQuery" =>
    /\ w_pc \in {"body", "exit"} =>
         (connection = "open" /\ closeCalls = opened - 1)
    /\ w_pc = "idle" =>
         /\ connection # "open"
         /\ closeCalls = opened
         /\ cursorCloses = opened
         /\ (calls > 0 /\ results = <<"None">>) => w_exc = "OperationalError"
         /\ (calls > 0 /\ results # <<"None">>) => w_exc = body_out

C26_Witness ==
  /\ prog = "ExecuteQuery"
  /\ w_pc = "idle"
  /\ calls = 3
  /\ opened = 3
  /\ closeCalls = 3
  /\ results = <<"None">>
  /\ connection = "closed"
  /\ w_exc = "OperationalError"

\* C27 as stated: when a `with DatabaseConnection()` block is over, whether
\* its body raised or not, the cursor and the connection are closed and
\* what the body raised is what the caller gets
C27_ClosedOnEveryExit ==
  (prog = "DatabaseConnection" /\ w_pc = "idle" /\ calls > 0
     /\ connection # "None" /\ w_exc = body_out)
    => (cursor = "closed" /\ connection = "closed" /\ closeCalls = opened)

\* a step of a seeding operation: insert_data, or DatabaseConnection.__enter__
SeedingStep ==
  \/ prog = "insert_data" /\ calls' = calls + 1
  \/ prog = "DatabaseConnection" /\ w_pc = "idle" /\ w_pc' # w_pc

C28_SeedInv ==
  /\ (prog = "insert_data" /\ calls >= 1) => after_first = <<conn_rows, rows>>
  /\ prog = "DatabaseConnection" => seedings <= 1

\* C28: seeding is idempotent: after any number of insert_data calls the
\* table is as the first call left it, the sample rows of DatabaseConnection
\* are inserted at most once, and seeding a populated table inserts nothing
C28_SeedingIdempotent ==
  /\ [](C28_SeedInv)
  /\ [][(SeedingStep /\ Len(IF prog = "insert_data" THEN conn_rows ELSE rows) > 0)
          => (rows' = rows /\ (prog = "insert_data" => conn_rows' = conn_rows)
              /\ seedings' = seedings)]_vars

\* C28 witness: insert_data ran three times on a table that was empty and
\* loaded it once; or a third DatabaseConnection was opened on seeded rows
C28_Witness ==
  \/ /\ prog = "insert_data"
     /\ calls = MaxCalls
     /\ body_out = "populated"
     /\ Len(rows) = MaxCsv
     /\ rows[1] = <<1, 1>>
  \/ /\ prog = "DatabaseConnection"
     /\ calls = MaxCalls - 1
     /\ w_pc = "body"
     /\ seedings = 1

\* C29: in a traversal of a batch or page stream with size b >= 1 over
\* data that is not modified, every yielded batch has at least one record
\* and at most b, every yielded batch but the last has exactly b, and the
\* stream ends on the fetch that returns no record, which is not yielded:
\* the ended stream has made one fetch more than it yielded batches
C29_BatchesFullButLast ==
  (prog \in WindowProgs /\ batch_size >= 1 /\ storeWrites = 0) =>
    /\ \A k \in 1..Len(yielded) :
         /\ Len(yielded[k]) >= 1
         /\ Len(yielded[k]) <= batch_size
         /\ k < Len(yielded) => Len(yielded[k]) = batch_size
    /\ (g_pc = "exhausted" /\ opened > 0) =>
         /\ Window(rows, batch_size, offset) = <<>>
         /\ fetchCalls = Len(yielded) + 1

C29_Witness ==
  /\ prog = "stream_users_in_batches"
  /\ g_pc = "exhausted"
  /\ storeWrites = 0
  /\ batch_size = 3
  /\ Len(yielded) = 2
  /\ Len(yielded[2]) = 1

\* C30: in a batch or page stream with size b >= 1 the offset starts at 0,
\* is never negative and never decreases; the fetch that yielded the k-th
\* batch was made at offset b * (k - 1), and the fetch that found nothing
\* (or failed) after k batches at offset b * k, so the offset goes up by
\* exactly b after each yielded batch and stays after the empty one
C30_OffsetInv ==
  (prog \in WindowProgs /\ batch_size >= 1) =>
    /\ offset >= 0
    /\ g_pc = "created" => offset = 0
    /\ g_pc \in {"suspended", "abandoned", "collected"}
         => offset = batch_size * (Len(yielded) - 1)
    /\ g_pc \in {"exhausted", "raised"} => offset = batch_size * Len(yielded)

C30_OffsetAdvancesByBatchSize ==
  /\ [](C30_OffsetInv)
  /\ [][(prog \in WindowProgs /\ batch_size >= 1) =>
          /\ offset' >= offset
          /\ Len(yielded') > Len(yielded) /\ yielded # <<>>
               => offset' = offset + batch_size
          /\ g_pc' = "exhausted" /\ yielded # <<>> /\ connection' # "None"
               => offset' = offset + batch_size]_vars

C30_Witness ==
  /\ prog = "stream_users_in_batches"
  /\ g_pc = "exhausted"
  /\ batch_size = 2
  /\ Len(yielded) = 2
  /\ offset = 4

\* the consumer holds what it has received and has no request under way
AtRest == g_pc \in {"created", "suspended", "abandoned", "collected"}

\* C31: whenever the consumer of lazy_pagination has received k pages and
\* has no request under way, paginate_users has been called k times: k
\* connections opened, k window queries run
C31_PagesFetchedOnDemand ==
  (prog = "lazy_pagination" /\ AtRest)
    => (fetchCalls = Len(yielded) /\ opened = Len(yielded))

C31_Witness ==
  /\ prog = "lazy_pagination"
  /\ g_pc = "abandoned"
  /\ batch_size = 1
  /\ Len(rows) = MaxRows
  /\ Len(yielded) = 2
  /\ fetchCalls = 2

\* C32: whenever the consumer of stream_users has received k rows and has no
\* request under way, k rows have been fetched from the cursor, by k calls
\* of fetchone(); no step fetches more than one row
C32_RowsFetchedOnDemand ==
  /\ []((prog = "stream_users" /\ AtRest)
          => (cursor_pos = Len(yielded) /\ fetchCalls = Len(yielded)))
  /\ [][prog = "stream_users" => cursor_pos' <= cursor_pos + 1]_vars

C32_Witness ==
  /\ prog = "stream_users"
  /\ g_pc = "abandoned"
  /\ Len(result_set) = MaxRows
  /\ Len(yielded) = 2
  /\ cursor_pos = 2

\* C33 as stated: paginate_users closes the connection it opened on every
\* exit, the one where the page query fails included, and lazy_pagination
\* holds no open connection while it is suspended between pages
C33_PageConnectionClosedOnEveryExit ==
  (prog = "lazy_pagination" /\ g_pc # "created")
    => (closeCalls = opened /\ connection # "open")

\* C34 as stated: in every call of a function under transactional exactly
\* one of commit and rollback is invoked, never both: commit if and only if
\* the unit returned, rollback if and only if the unit raised, also when
\* the commit itself fails
C34_ExactlyOneOfCommitAndRollback ==
  TxnEnded => /\ commits + rollbacks = 1
              /\ commits = 1 <=> unit_outcome[1] = "return"
              /\ rollbacks = 1 <=> unit_outcome[1] = "raise"

\* C34 amended: commit is invoked, once, if and only if the unit returned;
\* rollback is invoked, once, if and only if the unit raised or the commit
\* failed.  Both are invoked in one call exactly when the commit failed,
\* commit first, and then the call ends with the commit's failure; a
\* rollback is never followed by a commit
C34_RollbackAlsoAfterFailedCommit ==
  /\ [](TxnEnded =>
          /\ commits <= 1
          /\ rollbacks <= 1
          /\ commits = 1 <=> unit_outcome[1] = "return"
          /\ rollbacks = 1 <=> (unit_outcome[1] = "raise" \/ exc = "CommitError")
          /\ (commits = 1 /\ rollbacks = 1)
               <=> (unit_outcome[1] = "return" /\ exc = "CommitError")
          /\ (commits = 1 /\ rollbacks = 1) => outcome = <<"raise", "CommitError">>)
  /\ [][(prog = "update_user_email" /\ rollbacks >= 1 /\ d_pc # "idle")
          => commits' = commits]_vars

C34_Witness ==
  /\ TxnEnded
  /\ d_pc = "idle"
  /\ unit_outcome[1] = "return"
  /\ Len(unit_writes) >= 1
  /\ commits = 1
  /\ rollbacks = 1
  /\ committed = before

\* the index of the first attempt in h that succeeded, Len(h) + 1 when none did
RECURSIVE FirstSuccess(_)
FirstSuccess(h) ==
  IF h = <<>> THEN 1
  ELSE IF Head(h) = "ok" THEN 1 ELSE 1 + FirstSuccess(Tail(h))

\* C35: under retry_on_failure(retries = r), r >= 0, the unit is invoked
\* min(k, r + 1) times, k the index of the first attempt that succeeds: at
\* least once, never after a success, whose result is returned, and never
\* more than r + 1 times
C35_InvokedUntilFirstSuccess ==
  (prog = "fetch_users_with_retry" /\ callOpened = 1) =>
    /\ Len(history) <= retries + 1
    /\ \A i \in 1..Len(history) - 1 : history[i] # "ok"
    /\ d_pc \in {"finally", "idle"} =>
         /\ Len(history) >= 1
         /\ Len(history) = Min(FirstSuccess(history), retries + 1)
         /\ FirstSuccess(history) <= Len(history) => outcome[1] = "return"
         /\ FirstSuccess(history) > Len(history) => outcome[1] = "raise"

C35_Witness ==
  /\ RetryDone
  /\ retries = MaxRetries
  /\ Len(history) = 2
  /\ history[2] = "ok"
  /\ outcome[1] = "return"

\* a call of fetch_users_with_cache that got its connection and is past the
\* cache layer
CacheCallPastFunc ==
  /\ prog = "fetch_users_with_cache"
  /\ d_pc \in {"finally", "idle"}
  /\ callOpened = 1

\* C36: when the function under cache_query raises on a miss, the call ends
\* with that exception and query_cache is as it was, without an entry for
\* the key, so that the next call with the key misses and invokes the
\* function again: every call that finds no entry invokes it once
C36_FailedMissStoresNothing ==
  /\ []((CacheCallPastFunc /\ Truthy(query) /\ ~was_cached) =>
          /\ callInvoked = 1
          /\ outcome[1] = "raise" => query \notin DOMAIN query_cache)
  /\ [][(prog = "fetch_users_with_cache" /\ d_pc = "miss"
           /\ outcome'[1] = "raise")
          => (query_cache' = query_cache /\ d_pc' = "finally"
              /\ outcome'[2] \in Exceptions)]_vars

\* C36 witness: two calls with one key, the first failed on its miss, the
\* second invoked the function again and stored its result
C36_Witness ==
  /\ CacheCallPastFunc
  /\ d_pc = "idle"
  /\ calls = 2
  /\ Truthy(query)
  /\ invoked[query] = 2
  /\ succeeded[query] = 1
  /\ outcome[1] = "return"
  /\ DOMAIN query_cache = {query}

\* C37: a call of fetch_users_with_cache whose query is missing, None or ""
\* goes past the cache: the function is invoked by every such call, and
\* query_cache is not read or written by it
C37_FalsyQueryBypassesCache ==
  /\ []((CacheCallPastFunc /\ query = "") => callInvoked = 1)
  /\ [](prog = "fetch_users_with_cache" => "" \notin DOMAIN query_cache)
  /\ [][(prog = "fetch_users_with_cache" /\ query = "" /\ d_pc # "idle")
          => query_cache' = query_cache]_vars

C37_Witness ==
  /\ CacheCallPastFunc
  /\ d_pc = "idle"
  /\ query = ""
  /\ invoked[""] = 2
  /\ succeeded[""] = 2
  /\ DOMAIN query_cache = {"SELECT * FROM users"}

\* the last `with DatabaseConnection()` statement ran its body and __exit__
DCExited ==
  /\ prog = "DatabaseConnection"
  /\ w_pc = "idle"
  /\ calls > 0
  /\ cursor = "closed"

\* C38 as stated: when a DatabaseConnection scope has been left, on the
\* normal path or because the body raised, the writes the body made are
\* committed: the store shows what the connection saw
C38_PendingWritesCommittedOnExit ==
  DCExited => rows = conn_rows

\* a batch or page stream with size b >= 1
SizedWindowStream == prog \in WindowProgs /\ batch_size >= 1

\* C39: for every size b >= 1 and every store of n rows that is not written
\* during the traversal, a consumer that keeps pulling from
\* stream_users_in_batches(b) or lazy_pagination(b) reaches the end of the
\* stream; the stream has then run one window query more than it yielded
\* batches, and it never yields more batches than there are rows
C39_TraversalTerminates ==
  /\ SizedWindowStream
       => <>(g_pc \in {"exhausted", "raised", "abandoned"} \/ storeWrites > 0)
  /\ []((SizedWindowStream /\ storeWrites = 0)
          => /\ Len(yielded) <= Len(rows)
             /\ (g_pc = "exhausted" /\ opened >= 1)
                  => fetchCalls = Len(yielded) + 1)

C39_Witness ==
  /\ prog = "lazy_pagination"
  /\ g_pc = "exhausted"
  /\ storeWrites = 0
  /\ batch_size = 2
  /\ Len(rows) = MaxRows
  /\ Len(yielded) = 2
  /\ fetchCalls = 3

====
